---- MODULE Spec2Model ----
(***************************************************************************)
(* n8ncheck: the workflow dependency-graph engine (WorkflowGraph) and the  *)
(* analysis orchestrator (WorkflowAnalyzer), as state machines.            *)
(*                                                                         *)
(* A workflow is the value the code receives:                              *)
(*   nodes       : sequence of [id, name, type]                            *)
(*   connections : sequence of entries [key, hasMain, main], in the order  *)
(*                 Object.entries() yields them; main is a sequence of     *)
(*                 output ports [isArray, conns]; conns is a sequence of   *)
(*                 target references, "" standing for a null connection or *)
(*                 an empty node reference.                                *)
(* The graphology graph is kept as the sequence of its node ids and the    *)
(* sequence of its directed edges <<source, target>>, both in insertion    *)
(* order, which is the order graphology iterates them in.                  *)
(***************************************************************************)
EXTENDS Integers, Sequences, FiniteSets, TLC

\* ------------------------------------------------------------------ bounds
MaxNodes == 3
MaxEdges == 4

\* ------------------------------------------------------- sequence helpers
Range(s) == {s[i] : i \in DOMAIN s}

Contains(s, x) == \E i \in DOMAIN s : s[i] = x

RECURSIVE SetToSeqBy(_, _)
\* the elements of the set S, ordered as they occur in the sequence order
SetToSeqBy(order, S) ==
  IF order = <<>> THEN <<>>
  ELSE IF Head(order) \in S
       THEN <<Head(order)>> \o SetToSeqBy(Tail(order), S)
       ELSE SetToSeqBy(Tail(order), S)

\* --------------------------------------------------------- input universe
IdPool == <<"a", "b", "c", "d", "e">>
NamePool == <<"A", "B", "C", "D", "E">>

\* A node type string is kept as the sequence of its pieces, so that one type
\* can be a part of another ("slack" of "slackTrigger") as in the source
Base == "n8n-nodes-base"

NODE_TYPES ==
  [SET |-> <<Base, ".", "set">>,
   NO_OP |-> <<Base, ".", "noOp">>,
   CODE |-> <<Base, ".", "code">>,
   HTTP_REQUEST |-> <<Base, ".", "httpRequest">>,
   HTTP_REQUEST_TOOL |-> <<Base, ".", "httpRequest", "Tool">>,
   GOOGLE_SHEETS |-> <<Base, ".", "googleSheets">>,
   GOOGLE_SHEETS_TOOL |-> <<Base, ".", "googleSheets", "Tool">>,
   GOOGLE_BIGQUERY |-> <<Base, ".", "googleBigQuery">>,
   GOOGLE_BIGQUERY_TOOL |-> <<Base, ".", "googleBigQuery", "Tool">>,
   GOOGLE_DRIVE |-> <<Base, ".", "googleDrive">>,
   GOOGLE_DRIVE_TOOL |-> <<Base, ".", "googleDrive", "Tool">>,
   SLACK |-> <<Base, ".", "slack">>,
   SLACK_TOOL |-> <<Base, ".", "slack", "Tool">>,
   SLACK_TRIGGER |-> <<Base, ".", "slack", "Trigger">>,
   IF_NODE |-> <<Base, ".", "if">>,
   WEBHOOK |-> <<Base, ".", "webhook">>]

\* a type that is in neither table
UnlistedType == <<"custom-nodes", ".", "thing">>

SafeType == NODE_TYPES.SET

GOOGLE_SHEETS_RESOURCES == [DOCUMENT |-> "spreadsheet", SHEET_WITHIN_DOCUMENT |-> "sheet"]

DOCUMENT_OPERATIONS == [CREATE |-> "create", DELETE |-> "delete"]

SHEET_WITHIN_DOCUMENT_OPERATIONS == [GET_ROWS |-> "read"]

\* node.parameters, as far as it is read: "" for a field that is not set
\* url is a sequence of pieces, <<>> when it is not set; content is what the
\* jsCode of a Code node or the conditions of an If node amount to for the
\* user validators: "validates", "partial" or "" (nothing of the kind)
NoParameters == [resource |-> "", operation |-> "", url |-> <<>>, content |-> ""]

CreateSpreadsheet ==
  [NoParameters EXCEPT !.resource = GOOGLE_SHEETS_RESOURCES.DOCUMENT,
                       !.operation = DOCUMENT_OPERATIONS.CREATE]

MkNode(i, t) ==
  [id |-> IdPool[i], name |-> NamePool[i], type |-> t, parameters |-> NoParameters]

MaxWorkflowNodes == 3

\* the kinds of node the analysed workflows are made of: a type, and the
\* parameters that go with it
AnalyzedKinds ==
  {[type |-> NODE_TYPES.SET, parameters |-> NoParameters],
   [type |-> UnlistedType, parameters |-> NoParameters],
   [type |-> NODE_TYPES.SLACK_TRIGGER, parameters |-> NoParameters],
   [type |-> NODE_TYPES.SLACK, parameters |-> NoParameters],
   [type |-> NODE_TYPES.GOOGLE_SHEETS, parameters |-> NoParameters],
   [type |-> NODE_TYPES.GOOGLE_SHEETS, parameters |-> CreateSpreadsheet]}

KindLists == UNION {[1..n -> AnalyzedKinds] : n \in 0..MaxWorkflowNodes}

\* the connections of an analysed workflow: none, each node to the next one
\* (by name), or one entry whose key is no node
ConnectionShapes == {"none", "chain", "unresolvable"}

ChainEntry(i) ==
  [key |-> NamePool[i], hasMain |-> TRUE,
   main |-> <<[isArray |-> TRUE, conns |-> <<NamePool[i + 1]>>]>>]

ShapedConnections(n, shape) ==
  IF shape = "chain" /\ n >= 2 THEN [i \in 1..(n - 1) |-> ChainEntry(i)]
  ELSE IF shape = "unresolvable"
       THEN <<[key |-> "zz", hasMain |-> TRUE, main |-> <<>>]>>
       ELSE <<>>

AnalyzedWorkflows ==
  {[nodes |-> [i \in DOMAIN ks |-> [MkNode(i, ks[i].type) EXCEPT
                                        !.parameters = ks[i].parameters]],
    connections |-> ShapedConnections(Len(ks), shape)] :
     ks \in KindLists, shape \in ConnectionShapes}

\* all ordered pairs of the first n pool indices, row by row
PairSeq(n) == [k \in 1..(n * n) |-> <<((k - 1) \div n) + 1, ((k - 1) % n) + 1>>]

EdgeSets(n) == {E \in SUBSET Range(PairSeq(n)) : Cardinality(E) <= MaxEdges}

\* the connection entry of source index i: keyed by the node's name, its
\* single output port listing the targets by id
EntryOf(i, n, E) ==
  [key |-> NamePool[i], hasMain |-> TRUE,
   main |-> << [isArray |-> TRUE,
                conns |-> SetToSeqBy([j \in 1..n |-> IdPool[j]],
                                     {IdPool[p[2]] : p \in {q \in E : q[1] = i}})] >>]

RECURSIVE EntriesFrom(_, _, _)
EntriesFrom(i, n, E) ==
  IF i > n THEN <<>>
  ELSE IF \E q \in E : q[1] = i
       THEN <<EntryOf(i, n, E)>> \o EntriesFrom(i + 1, n, E)
       ELSE EntriesFrom(i + 1, n, E)

MkWorkflow(n, E) ==
  [nodes |-> [i \in 1..n |-> MkNode(i, SafeType)],
   connections |-> EntriesFrom(1, n, E)]

RegularWorkflows == UNION {{MkWorkflow(n, E) : E \in EdgeSets(n)} : n \in 0..MaxNodes}

\* Workflows built around the single node "a" (with or without a self-loop)
\* and one more connection entry, put before or after the regular ones.  The
\* entry is keyed by the node id or by an unknown key, may lack its main
\* outputs, and lists up to two targets, by id, by name, unknown or empty, in
\* one output port or spread over two; a port may be null instead of a list.
ExtraKeys == {"a", "zz"}
ExtraTargets == {"a", "A", "zz", ""}

ExtraConns == {<<>>} \cup {<<t>> : t \in ExtraTargets}
                     \cup {<<t, u>> : t \in ExtraTargets, u \in ExtraTargets}

ExtraMains ==
  {<<[isArray |-> TRUE, conns |-> c]>> : c \in ExtraConns}
  \cup {<<[isArray |-> FALSE, conns |-> <<>>], [isArray |-> TRUE, conns |-> <<t>>]>> :
          t \in ExtraTargets}
  \cup {<<[isArray |-> TRUE, conns |-> <<t>>], [isArray |-> TRUE, conns |-> <<u>>]>> :
          t \in ExtraTargets, u \in ExtraTargets}

ExtraEntries ==
  {[key |-> k, hasMain |-> TRUE, main |-> m] : k \in ExtraKeys, m \in ExtraMains}
  \cup {[key |-> k, hasMain |-> FALSE, main |-> <<>>] : k \in ExtraKeys}

ExtraWorkflows ==
  LET bases == {MkWorkflow(1, E) : E \in SUBSET {<<1, 1>>}} IN
  {[nodes |-> w.nodes, connections |-> <<e>> \o w.connections] :
     w \in bases, e \in ExtraEntries}
  \cup {[nodes |-> w.nodes, connections |-> w.connections \o <<e>>] :
          w \in bases, e \in ExtraEntries}

\* Node lists with a node without id, a repeated name, and a name that is
\* another node's id, with at most one connection
OddNodeLists ==
  { << MkNode(1, SafeType), [MkNode(2, SafeType) EXCEPT !.id = ""] >>,
    << MkNode(1, SafeType), [MkNode(2, SafeType) EXCEPT !.name = "A"] >>,
    << [MkNode(1, SafeType) EXCEPT !.name = "b"], MkNode(2, SafeType) >> }

OddRefs == {"a", "b", "A", "B"}

OddWorkflows ==
  {[nodes |-> ns, connections |-> <<>>] : ns \in OddNodeLists}
  \cup {[nodes |-> ns,
          connections |-> <<[key |-> k, hasMain |-> TRUE,
                             main |-> <<[isArray |-> TRUE, conns |-> <<t>>]>>]>>] :
          ns \in OddNodeLists, k \in OddRefs, t \in OddRefs}

\* the 3-cycle A -> B -> C -> A next to an isolated node D
CycleAndIsolated == MkWorkflow(4, {<<1, 2>>, <<2, 3>>, <<3, 1>>})

ExampleWorkflows == {CycleAndIsolated}

GraphWorkflows == RegularWorkflows \cup ExtraWorkflows \cup OddWorkflows \cup ExampleWorkflows

\* ------------------------------------------------ WorkflowGraph: building
ErrNone == "none"
ErrNodeNotFound == "Node not found"
ErrNodeExists == "graphology: node already exists"
ErrEdgeExists == "graphology: edge already exists"

\* gattr[i] holds the attributes stored with node gn[i]
EmptyGraph ==
  [gn |-> <<>>, gattr |-> <<>>, ge |-> <<>>, nameToId |-> <<>>, err |-> ErrNone]

\* nameToId is a Map: a sequence of <<name, id>> pairs with unique names,
\* a later set() of the same name replacing the value in place
RECURSIVE MapSet(_, _, _)
MapSet(m, k, v) ==
  IF m = <<>> THEN << <<k, v>> >>
  ELSE IF Head(m)[1] = k THEN << <<k, v>> >> \o Tail(m)
       ELSE <<Head(m)>> \o MapSet(Tail(m), k, v)

MapHas(m, k) == \E i \in DOMAIN m : m[i][1] = k

MapGet(m, k) == m[CHOOSE i \in DOMAIN m : m[i][1] = k][2]

\* graphology addNode: throws when the key is already a node
AddNode(g, id, attributes) ==
  IF Contains(g.gn, id) THEN [g EXCEPT !.err = ErrNodeExists]
  ELSE [g EXCEPT !.gn = Append(g.gn, id), !.gattr = Append(g.gattr, attributes)]

\* graphology addDirectedEdge on a graph created without the multi option:
\* throws when an edge with the same source and target exists
AddDirectedEdge(g, s, t) ==
  IF Contains(g.ge, <<s, t>>) THEN [g EXCEPT !.err = ErrEdgeExists]
  ELSE [g EXCEPT !.ge = Append(g.ge, <<s, t>>)]

RECURSIVE createNodeMapping(_, _)
createNodeMapping(g, nodes) ==
  IF nodes = <<>> \/ g.err # ErrNone THEN g
  ELSE LET node == Head(nodes) IN
       IF node.id # ""
       THEN LET g1 == AddNode(g, node.id, [name |-> node.name, type |-> node.type,
                                           parameters |-> node.parameters]) IN
            IF g1.err # ErrNone THEN g1
            ELSE createNodeMapping(
                   [g1 EXCEPT !.nameToId = MapSet(g.nameToId, node.name, node.id)],
                   Tail(nodes))
       ELSE createNodeMapping(g, Tail(nodes))

\* Variant of the operator below that accepts every key as a node id.
getActualNodeId_AnyKey(g, nodeKey) == [found |-> TRUE, id |-> nodeKey]

\* [found |-> FALSE] stands for the thrown Error('Node not found: ...')
getActualNodeId(g, nodeKey) ==
  IF Contains(g.gn, nodeKey) THEN [found |-> TRUE, id |-> nodeKey]
  ELSE IF MapHas(g.nameToId, nodeKey) /\ MapGet(g.nameToId, nodeKey) # ""
       THEN [found |-> TRUE, id |-> MapGet(g.nameToId, nodeKey)]
       ELSE [found |-> FALSE, id |-> ""]

RECURSIVE ForEachConnection(_, _, _)
ForEachConnection(g, sourceNodeId, conns) ==
  IF conns = <<>> \/ g.err # ErrNone THEN g
  ELSE IF Head(conns) = "" THEN ForEachConnection(g, sourceNodeId, Tail(conns))
  ELSE LET target == getActualNodeId(g, Head(conns)) IN
       IF ~target.found THEN [g EXCEPT !.err = ErrNodeNotFound]
       ELSE ForEachConnection(AddDirectedEdge(g, sourceNodeId, target.id),
                              sourceNodeId, Tail(conns))

createGraphEdges(g, sourceNodeId, port) ==
  IF ~port.isArray THEN g
  ELSE ForEachConnection(g, sourceNodeId, port.conns)

RECURSIVE ForEachPort(_, _, _)
ForEachPort(g, sourceNodeId, ports) ==
  IF ports = <<>> \/ g.err # ErrNone THEN g
  ELSE ForEachPort(createGraphEdges(g, sourceNodeId, Head(ports)),
                   sourceNodeId, Tail(ports))

RECURSIVE addConnections(_, _)
addConnections(g, connections) ==
  IF connections = <<>> \/ g.err # ErrNone THEN g
  ELSE LET entry == Head(connections)
           source == getActualNodeId(g, entry.key)
       IN IF ~source.found THEN [g EXCEPT !.err = ErrNodeNotFound]
          ELSE IF ~entry.hasMain THEN addConnections(g, Tail(connections))
          ELSE addConnections(ForEachPort(g, source.id, entry.main),
                              Tail(connections))

\* graphology neighbour queries, in the order the edges were added
outNeighbors(ge, n) ==
  LET es == SelectSeq(ge, LAMBDA e : e[1] = n) IN [i \in DOMAIN es |-> es[i][2]]

inNeighbors(ge, n) ==
  LET es == SelectSeq(ge, LAMBDA e : e[2] = n) IN [i \in DOMAIN es |-> es[i][1]]

hasDirectedEdge(ge, s, t) == Contains(ge, <<s, t>>)

\* WorkflowGraph constructor, lines 30-33: the graph, or the first error thrown
BuildGraph(w) ==
  LET g1 == createNodeMapping(EmptyGraph, w.nodes) IN
  IF g1.err # ErrNone THEN g1 ELSE addConnections(g1, w.connections)

\* -------------------------------------- graphology-components: SCC search
\* stronglyConnectedComponents(graph): the path-based depth-first search of
\* the library.  st = [count, P, S, preorder, assigned, components].
RECURSIVE PopWhileAbove(_, _, _)
PopWhileAbove(P, preorder, neighborOrder) ==
  IF P # <<>> /\ preorder[P[Len(P)]] > neighborOrder
  THEN PopWhileAbove(SubSeq(P, 1, Len(P) - 1), preorder, neighborOrder)
  ELSE P

RECURSIVE PopComponent(_, _, _)
\* do { pop = S.pop(); component.push(pop) } while (pop !== node)
PopComponent(S, node, component) ==
  LET pop == S[Len(S)]
      rest == SubSeq(S, 1, Len(S) - 1)
  IN IF pop = node \/ rest = <<>>
     THEN [S |-> rest, component |-> Append(component, pop)]
     ELSE PopComponent(rest, node, Append(component, pop))

RECURSIVE SccDFS(_, _, _)
RECURSIVE SccVisit(_, _, _)
SccVisit(ge, st, neighbors) ==
  IF neighbors = <<>> THEN st
  ELSE LET neighbor == Head(neighbors) IN
       IF neighbor \in DOMAIN st.preorder
       THEN IF neighbor \notin st.assigned
            THEN SccVisit(ge,
                   [st EXCEPT !.P = PopWhileAbove(st.P, st.preorder,
                                                  st.preorder[neighbor])],
                   Tail(neighbors))
            ELSE SccVisit(ge, st, Tail(neighbors))
       ELSE SccVisit(ge, SccDFS(ge, st, neighbor), Tail(neighbors))

SccDFS(ge, st, node) ==
  LET st1 == [st EXCEPT !.preorder = (node :> st.count) @@ st.preorder,
                        !.count = st.count + 1,
                        !.P = Append(st.P, node),
                        !.S = Append(st.S, node)]
      st2 == SccVisit(ge, st1, outNeighbors(ge, node))
  IN IF st2.P # <<>> /\ st2.preorder[st2.P[Len(st2.P)]] = st2.preorder[node]
     THEN LET popped == PopComponent(st2.S, node, <<>>) IN
          [st2 EXCEPT !.S = popped.S,
                      !.assigned = st2.assigned \cup Range(popped.component),
                      !.components = Append(st2.components, popped.component),
                      !.P = SubSeq(st2.P, 1, Len(st2.P) - 1)]
     ELSE st2

RECURSIVE SccLoop(_, _, _)
SccLoop(ge, st, nodes) ==
  IF nodes = <<>> THEN st
  ELSE IF Head(nodes) \notin st.assigned
       THEN SccLoop(ge, SccDFS(ge, st, Head(nodes)), Tail(nodes))
       ELSE SccLoop(ge, st, Tail(nodes))

stronglyConnectedComponents(gn, ge) ==
  IF gn = <<>> THEN <<>>
  ELSE IF ge = <<>> THEN [i \in DOMAIN gn |-> <<gn[i]>>]
  ELSE SccLoop(ge,
               [count |-> 1, P |-> <<>>, S |-> <<>>, preorder |-> <<>>,
                assigned |-> {}, components |-> <<>>],
               gn).components

\* ----------------------------------------- WorkflowGraph: SCCs, condensing
hasBackEdgeInComponent(ge, nodes) ==
  \E i \in DOMAIN nodes :
     \/ hasDirectedEdge(ge, nodes[i], nodes[i])
     \/ \E k \in DOMAIN outNeighbors(ge, nodes[i]) :
           outNeighbors(ge, nodes[i])[k] \in Range(nodes)

\* Variant of the operator below that looks at the size only.
SccType_SizeOnly(component, hasBackEdge) ==
  IF Len(component) > 1 THEN "loop" ELSE "single"

SccType(component, hasBackEdge) ==
  IF Len(component) > 1 \/ hasBackEdge THEN "loop" ELSE "single"

\* findSCCs keeping only the components that are loops
findSCCs_OnlyLoops(gn, ge) ==
  LET components == SelectSeq(stronglyConnectedComponents(gn, ge),
                              LAMBDA c : Len(c) > 1 \/ hasBackEdgeInComponent(ge, c)) IN
  [i \in DOMAIN components |->
     [id |-> "SCC_" \o ToString(i - 1),
      nodes |-> components[i],
      type |-> "loop",
      hasBackEdge |-> TRUE]]

findSCCs(gn, ge) ==
  LET components == stronglyConnectedComponents(gn, ge) IN
  [i \in DOMAIN components |->
     LET hasBackEdge == hasBackEdgeInComponent(ge, components[i]) IN
     [id |-> "SCC_" \o ToString(i - 1),
      nodes |-> components[i],
      type |-> SccType(components[i], hasBackEdge),
      hasBackEdge |-> hasBackEdge]]

NoSCC == ""

\* nodeToSCC.get(node): the id set last for the node, NoSCC for undefined
nodeToSCC(sccs, node) ==
  LET holders == {i \in DOMAIN sccs : node \in Range(sccs[i].nodes)} IN
  IF holders = {} THEN NoSCC
  ELSE sccs[CHOOSE i \in holders : \A j \in holders : j <= i].id

RECURSIVE CondensedEdges_KeepSelf(_, _, _)
\* CondensedEdges without the sourceSCC !== targetSCC test
CondensedEdges_KeepSelf(sccs, ge, added) ==
  IF ge = <<>> THEN added
  ELSE LET sourceSCC == nodeToSCC(sccs, Head(ge)[1])
           targetSCC == nodeToSCC(sccs, Head(ge)[2])
       IN IF sourceSCC # NoSCC /\ targetSCC # NoSCC
             /\ ~Contains(added, <<sourceSCC, targetSCC>>)
          THEN CondensedEdges_KeepSelf(sccs, Tail(ge),
                                       Append(added, <<sourceSCC, targetSCC>>))
          ELSE CondensedEdges_KeepSelf(sccs, Tail(ge), added)

RECURSIVE CondensedEdges(_, _, _)
\* graph.forEachEdge: one condensed edge per new pair of distinct SCCs
CondensedEdges(sccs, ge, added) ==
  IF ge = <<>> THEN added
  ELSE LET sourceSCC == nodeToSCC(sccs, Head(ge)[1])
           targetSCC == nodeToSCC(sccs, Head(ge)[2])
       IN IF sourceSCC # NoSCC /\ targetSCC # NoSCC /\ sourceSCC # targetSCC
             /\ ~Contains(added, <<sourceSCC, targetSCC>>)
          THEN CondensedEdges(sccs, Tail(ge), Append(added, <<sourceSCC, targetSCC>>))
          ELSE CondensedEdges(sccs, Tail(ge), added)

\* Variant of the operator below that adds one condensed edge for every
\* original edge between two different components.
createCondensedDAG_EveryEdge(sccs, ge) ==
  LET crossing == SelectSeq(ge, LAMBDA e : nodeToSCC(sccs, e[1]) # nodeToSCC(sccs, e[2])) IN
  [cn |-> [i \in DOMAIN sccs |-> sccs[i].id],
   ce |-> [k \in DOMAIN crossing |->
             <<nodeToSCC(sccs, crossing[k][1]), nodeToSCC(sccs, crossing[k][2])>>]]

createCondensedDAG(sccs, ge) ==
  [cn |-> [i \in DOMAIN sccs |-> sccs[i].id],
   ce |-> CondensedEdges(sccs, ge, <<>>)]

\* --------------------------------------------- graphology-dag: hasCycle,
\* topologicalSort
RECURSIVE ReachFrom(_, _, _)
\* the nodes reachable from the frontier along one or more edges
ReachFrom(edges, frontier, seen) ==
  LET next == {e[2] : e \in {x \in Range(edges) : x[1] \in frontier}} \ seen IN
  IF next = {} THEN seen ELSE ReachFrom(edges, next, seen \cup next)

Reachable(edges, n) == ReachFrom(edges, {n}, {})

hasCycle(nodes, edges) == \E i \in DOMAIN nodes : nodes[i] \in Reachable(edges, nodes[i])

inDegree(edges, n) == Len(inNeighbors(edges, n))

RECURSIVE KahnRelax(_, _, _, _)
\* forEachOutNeighbor(node, neighborCallback): decrement, enqueue at zero
KahnRelax(neighbors, inDegrees, queue, k) ==
  IF k > Len(neighbors) THEN [inDegrees |-> inDegrees, queue |-> queue]
  ELSE LET neighbor == neighbors[k]
           d == inDegrees[neighbor] - 1
       IN KahnRelax(neighbors, [inDegrees EXCEPT ![neighbor] = d],
                    IF d = 0 THEN Append(queue, neighbor) ELSE queue, k + 1)

RECURSIVE KahnLoop(_, _, _, _)
KahnLoop(edges, inDegrees, queue, sorted) ==
  IF queue = <<>> THEN sorted
  ELSE LET node == Head(queue)
           r == KahnRelax(outNeighbors(edges, node), inDegrees, Tail(queue), 1)
       IN KahnLoop(edges, r.inDegrees, r.queue, Append(sorted, node))

topologicalSort(nodes, edges) ==
  KahnLoop(edges,
           [n \in Range(nodes) |-> inDegree(edges, n)],
           SelectSeq(nodes, LAMBDA n : inDegree(edges, n) = 0),
           <<>>)

\* ------------------------------------------------- WorkflowGraph: queries
ErrCyclic == "Condensed graph should be acyclic but contains cycles"

\* [err, order]: the thrown error, or the topological order of the SCC ids
getTopologicalOrder(dag) ==
  IF hasCycle(dag.cn, dag.ce) THEN [err |-> ErrCyclic, order |-> <<>>]
  ELSE [err |-> ErrNone, order |-> topologicalSort(dag.cn, dag.ce)]

SccNodesById(sccs, sccId) ==
  IF \E i \in DOMAIN sccs : sccs[i].id = sccId
  THEN sccs[CHOOSE i \in DOMAIN sccs :
              sccs[i].id = sccId /\ \A j \in DOMAIN sccs : sccs[j].id = sccId => i <= j].nodes
  ELSE <<>>

\* getExecutionOrder listing the SCCs as stored instead of as sorted
getExecutionOrder_StoredOrder(sccs, dag) ==
  LET t == getTopologicalOrder(dag) IN
  [err |-> t.err, order |-> [i \in DOMAIN sccs |-> sccs[i].nodes]]

getExecutionOrder(sccs, dag) ==
  LET t == getTopologicalOrder(dag) IN
  [err |-> t.err,
   order |-> [i \in DOMAIN t.order |-> SccNodesById(sccs, t.order[i])]]

hasNode(gn, id) == Contains(gn, id)

\* getNodeById: the node object rebuilt from the stored attributes
getNodeById(gn, gattr, nodeId) ==
  LET i == CHOOSE k \in DOMAIN gn : gn[k] = nodeId IN
  [id |-> nodeId, name |-> gattr[i].name, type |-> gattr[i].type,
   parameters |-> gattr[i].parameters]

RECURSIVE CollectUnvisited(_, _, _)
CollectUnvisited(neighbors, visited, path) ==
  IF neighbors = <<>> THEN <<>>
  ELSE IF Head(neighbors) \notin visited
       THEN <<[nodeId |-> Head(neighbors), path |-> Append(path, Head(neighbors))]>>
            \o CollectUnvisited(Tail(neighbors), visited, path)
       ELSE CollectUnvisited(Tail(neighbors), visited, path)

\* PushUnvisited putting the neighbours at the front of the queue (unshift)
PushUnvisited_Front(queue, neighbors, visited, path) ==
  CollectUnvisited(neighbors, visited, path) \o queue

RECURSIVE PushUnvisited(_, _, _, _)
PushUnvisited(queue, neighbors, visited, path) ==
  IF neighbors = <<>> THEN queue
  ELSE IF Head(neighbors) \notin visited
       THEN PushUnvisited(Append(queue, [nodeId |-> Head(neighbors),
                                         path |-> Append(path, Head(neighbors))]),
                          Tail(neighbors), visited, path)
       ELSE PushUnvisited(queue, Tail(neighbors), visited, path)

RECURSIVE PathSearch(_, _, _, _)
\* the while loop of getPathFromNodeToNode: the id path found, or <<>>
PathSearch(ge, queue, visited, targetNodeId) ==
  IF queue = <<>> THEN <<>>
  ELSE LET current == Head(queue) IN
       IF current.nodeId \in visited
       THEN PathSearch(ge, Tail(queue), visited, targetNodeId)
       ELSE IF current.nodeId = targetNodeId THEN current.path
       ELSE LET visited1 == visited \cup {current.nodeId} IN
            PathSearch(ge,
                       PushUnvisited(Tail(queue), outNeighbors(ge, current.nodeId),
                                     visited1, current.path),
                       visited1, targetNodeId)

\* the local state of the while loop of getPathFromNodeToNode; expanded lists
\* the nodes whose neighbours were pushed to the queue, found tells that the
\* loop has returned from inside, result is the id path it returned
PathSearchStart(sourceNodeId) ==
  [queue |-> <<[nodeId |-> sourceNodeId, path |-> <<sourceNodeId>>]>>, visited |-> {},
   result |-> <<>>, expanded |-> <<>>, found |-> FALSE]

\* one round of the while loop of getPathFromNodeToNode
PathSearchStep(ge, st, targetNodeId) ==
  LET current == Head(st.queue)
      rest == Tail(st.queue)
  IN IF current.nodeId \in st.visited THEN [st EXCEPT !.queue = rest]
     ELSE IF current.nodeId = targetNodeId
          THEN [st EXCEPT !.queue = rest, !.visited = @ \cup {current.nodeId},
                          !.result = current.path, !.found = TRUE]
          ELSE LET visited1 == st.visited \cup {current.nodeId} IN
               [st EXCEPT !.queue = PushUnvisited(rest, outNeighbors(ge, current.nodeId),
                                                  visited1, current.path),
                          !.visited = visited1,
                          !.expanded = Append(@, current.nodeId)]

\* --------------------------------------------- WorkflowGraph: loop queries
getLoopSCCs(sccs) == SelectSeq(sccs, LAMBDA scc : scc.type = "loop")

\* Variant of the operator below that asks for a component of several nodes.
hasCircularDependencies_SeveralNodes(sccs) == \E i \in DOMAIN sccs : Len(sccs[i].nodes) > 1

hasCircularDependencies(sccs) == \E i \in DOMAIN sccs : sccs[i].type = "loop"

RECURSIVE LoopEdges(_, _, _)
\* scc.nodes.forEach(node => forEachOutEdge(node, ...)): the edges that stay
\* inside the component, node by node
LoopEdges(ge, nodes, nodeSet) ==
  IF nodes = <<>> THEN <<>>
  ELSE LET inside == SelectSeq(ge, LAMBDA e : e[1] = Head(nodes) /\ e[2] \in nodeSet) IN
       [k \in DOMAIN inside |-> [from |-> inside[k][1], to |-> inside[k][2]]]
       \o LoopEdges(ge, Tail(nodes), nodeSet)

getLoopInfo(sccs, ge) ==
  LET loops == getLoopSCCs(sccs) IN
  [i \in DOMAIN loops |->
     [id |-> loops[i].id,
      nodes |-> loops[i].nodes,
      edges |-> LoopEdges(ge, loops[i].nodes, Range(loops[i].nodes))]]

exportGraph(gn, gattr, ge) ==
  [nodes |-> [i \in DOMAIN gn |->
                [id |-> gn[i], name |-> gattr[i].name, type |-> gattr[i].type,
                 parameters |-> gattr[i].parameters]],
   edges |-> [k \in DOMAIN ge |-> [source |-> ge[k][1], target |-> ge[k][2]]]]

\* ------------------------------------- WorkflowGraph: neighbour queries
getNodeDependencies(gn, ge, nodeId) ==
  IF ~hasNode(gn, nodeId) THEN <<>> ELSE inNeighbors(ge, nodeId)

getNodeDependents(gn, ge, nodeId) ==
  IF ~hasNode(gn, nodeId) THEN <<>> ELSE outNeighbors(ge, nodeId)

\* the local state of the while loop of getAllSubsequentNodes and of
\* getAllPrecedingNodes; expanded lists the nodes whose neighbours were
\* pushed to the queue, in order
TraversalStart(nodeId) ==
  [queue |-> <<nodeId>>, visited |-> {}, result |-> <<>>, expanded |-> <<>>]

traversalNeighbors(ge, direction, nodeId) ==
  IF direction = "out" THEN outNeighbors(ge, nodeId) ELSE inNeighbors(ge, nodeId)

\* Variant of the operator below without the test that skips the start node.
TraversalStep_KeepStart(ge, direction, st, nodeId) ==
  LET currentNodeId == Head(st.queue)
      rest == Tail(st.queue)
  IN IF currentNodeId = "" \/ currentNodeId \in st.visited
     THEN [st EXCEPT !.queue = rest]
     ELSE [queue |-> rest \o traversalNeighbors(ge, direction, currentNodeId),
           visited |-> st.visited \cup {currentNodeId},
           result |-> Append(st.result, currentNodeId),
           expanded |-> Append(st.expanded, currentNodeId)]

\* one round of the while loop
TraversalStep(ge, direction, st, nodeId) ==
  LET currentNodeId == Head(st.queue)
      rest == Tail(st.queue)
  IN IF currentNodeId = "" THEN [st EXCEPT !.queue = rest]
     ELSE IF currentNodeId \in st.visited THEN [st EXCEPT !.queue = rest]
     ELSE [queue |-> rest \o traversalNeighbors(ge, direction, currentNodeId),
           visited |-> st.visited \cup {currentNodeId},
           result |-> IF currentNodeId # nodeId
                      THEN Append(st.result, currentNodeId)
                      ELSE st.result,
           expanded |-> Append(st.expanded, currentNodeId)]

RECURSIVE TraversalLoop(_, _, _, _)
\* while (queue.length > 0)
TraversalLoop(ge, direction, st, nodeId) ==
  IF st.queue = <<>> THEN st
  ELSE TraversalLoop(ge, direction, TraversalStep(ge, direction, st, nodeId), nodeId)

getAllSubsequentNodes(gn, ge, nodeId) ==
  IF ~hasNode(gn, nodeId) THEN <<>>
  ELSE TraversalLoop(ge, "out", TraversalStart(nodeId), nodeId).result

getAllPrecedingNodes(gn, ge, nodeId) ==
  IF ~hasNode(gn, nodeId) THEN <<>>
  ELSE TraversalLoop(ge, "in", TraversalStart(nodeId), nodeId).result

\* getPathFromNodeToNode without the sourceNodeId === targetNodeId answer
getPathFromNodeToNode_NoSelf(gn, gattr, ge, sourceNodeId, targetNodeId) ==
  IF ~hasNode(gn, sourceNodeId) \/ ~hasNode(gn, targetNodeId) THEN <<>>
  ELSE IF sourceNodeId = targetNodeId THEN <<>>
  ELSE LET path == PathSearch(ge, <<[nodeId |-> sourceNodeId, path |-> <<sourceNodeId>>]>>,
                              {}, targetNodeId)
       IN [i \in DOMAIN path |-> getNodeById(gn, gattr, path[i])]

getPathFromNodeToNode(gn, gattr, ge, sourceNodeId, targetNodeId) ==
  IF ~hasNode(gn, sourceNodeId) \/ ~hasNode(gn, targetNodeId) THEN <<>>
  ELSE IF sourceNodeId = targetNodeId THEN <<getNodeById(gn, gattr, sourceNodeId)>>
  ELSE LET path == PathSearch(ge, <<[nodeId |-> sourceNodeId, path |-> <<sourceNodeId>>]>>,
                              {}, targetNodeId)
       IN [i \in DOMAIN path |-> getNodeById(gn, gattr, path[i])]

\* ========================================================== NodeClassifier
JSCODE_CHECKER_ID == "jscode-checker"
BIGQUERY_CHECKER_ID == "bigquery-checker"
SLACK_CHECKER_ID == "slack-node-checker"
HTTPREQUEST_CHECKER_ID == "httprequest-checker"
GOOGLE_SHEETS_CHECKER_ID == "google-sheets-checker"
GOOGLE_DRIVE_CHECKER_ID == "google-drive-checker"
IF_CHECKER_ID == "if-checker"
NoCheckerId == ""

ReviewEntry(type, hasChecker, checkerId, externalConnection) ==
  [type |-> type, hasChecker |-> hasChecker, checkerId |-> checkerId,
   externalConnection |-> externalConnection]

\* The tables of security-rules.ts, in declaration order, restricted to the
\* types of NODE_TYPES above: every entry that has a checker, and two of the
\* entries that have none.
SECURITY_CONFIG ==
  [safeNodes |-> <<NODE_TYPES.NO_OP, NODE_TYPES.SET>>,
   reviewRequiredNodes |->
     << ReviewEntry(NODE_TYPES.CODE, TRUE, JSCODE_CHECKER_ID, FALSE),
        ReviewEntry(NODE_TYPES.HTTP_REQUEST, TRUE, HTTPREQUEST_CHECKER_ID, TRUE),
        ReviewEntry(NODE_TYPES.GOOGLE_SHEETS, TRUE, GOOGLE_SHEETS_CHECKER_ID, TRUE),
        ReviewEntry(NODE_TYPES.GOOGLE_BIGQUERY, TRUE, BIGQUERY_CHECKER_ID, TRUE),
        ReviewEntry(NODE_TYPES.SLACK, TRUE, SLACK_CHECKER_ID, TRUE),
        ReviewEntry(NODE_TYPES.IF_NODE, TRUE, IF_CHECKER_ID, FALSE),
        ReviewEntry(NODE_TYPES.SLACK_TRIGGER, FALSE, NoCheckerId, TRUE),
        ReviewEntry(NODE_TYPES.WEBHOOK, FALSE, NoCheckerId, TRUE),
        ReviewEntry(NODE_TYPES.GOOGLE_DRIVE, TRUE, GOOGLE_DRIVE_CHECKER_ID, TRUE),
        ReviewEntry(NODE_TYPES.GOOGLE_SHEETS_TOOL, TRUE, GOOGLE_SHEETS_CHECKER_ID, TRUE),
        ReviewEntry(NODE_TYPES.HTTP_REQUEST_TOOL, TRUE, HTTPREQUEST_CHECKER_ID, TRUE) >>]

RECURSIVE initializeReviewRequiredNodes(_, _)
\* reviewRequiredMap: a Map from type to entry, in insertion order
initializeReviewRequiredNodes(m, reviewNodes) ==
  IF reviewNodes = <<>> THEN m
  ELSE initializeReviewRequiredNodes(MapSet(m, Head(reviewNodes).type, Head(reviewNodes)),
                                     Tail(reviewNodes))

\* new NodeClassifier(), over the configuration it reads: its two fields
NodeClassifier(config) ==
  [safeNodesSet |-> Range(config.safeNodes),
   reviewRequiredMap |-> initializeReviewRequiredNodes(<<>>, config.reviewRequiredNodes)]

\* A type string is a sequence of pieces.  In a type, and in a table entry
\* read as a literal, a piece stands for itself.  In a table entry read as a
\* regular expression, "." is any one character, "\\." the dot, ".*" any
\* run of characters, "^" and "$" the two ends, and "(" an unclosed group.
SingleCharPieces == {".", "-"}

\* new RegExp(typePattern) throws on an unclosed group
IsValidRegex(typePattern) == ~Contains(typePattern, "(")

PieceMatches(patternPiece, piece) ==
  IF patternPiece = "." THEN piece \in SingleCharPieces
  ELSE IF patternPiece = "\\." THEN piece = "."
  ELSE patternPiece = piece

RECURSIVE MatchHere(_, _)
\* the pattern matches a prefix of the text
MatchHere(pattern, text) ==
  IF pattern = <<>> THEN TRUE
  ELSE IF pattern = <<"$">> THEN text = <<>>
  ELSE IF Head(pattern) = ".*"
       THEN \E k \in 0..Len(text) :
               MatchHere(Tail(pattern), SubSeq(text, k + 1, Len(text)))
       ELSE /\ text # <<>>
            /\ PieceMatches(Head(pattern), Head(text))
            /\ MatchHere(Tail(pattern), Tail(text))

\* regex.test(nodeType): the pattern matches somewhere inside the type,
\* unless it is anchored
RegexTest(typePattern, nodeType) ==
  IF typePattern # <<>> /\ Head(typePattern) = "^"
  THEN MatchHere(Tail(typePattern), nodeType)
  ELSE \E off \in 0..Len(nodeType) :
          MatchHere(typePattern, SubSeq(nodeType, off + 1, Len(nodeType)))

\* [found |-> FALSE] stands for null; threw: an exception left the method
NullInfo ==
  [found |-> FALSE, info |-> ReviewEntry(<<>>, FALSE, NoCheckerId, FALSE), threw |-> FALSE]

FoundInfo(info) == [found |-> TRUE, info |-> info, threw |-> FALSE]

RECURSIVE ScanReviewPatterns(_, _)
RECURSIVE CatchInvalidPattern(_, _)

\* Variant of the catch block below that lets the exception out.
CatchInvalidPattern_Throw(entries, nodeType) == [NullInfo EXCEPT !.threw = TRUE]

\* the catch block of the pattern loop: the entry is compared as a literal
CatchInvalidPattern(entries, nodeType) ==
  IF Head(entries)[1] = nodeType
  THEN FoundInfo(Head(entries)[2])
  ELSE ScanReviewPatterns(Tail(entries), nodeType)

\* for (const [typePattern, info] of this.reviewRequiredMap.entries())
ScanReviewPatterns(entries, nodeType) ==
  IF entries = <<>> THEN NullInfo
  ELSE LET typePattern == Head(entries)[1]
           info == Head(entries)[2]
       IN IF IsValidRegex(typePattern)
          THEN IF RegexTest(typePattern, nodeType)
               THEN FoundInfo(info)
               ELSE ScanReviewPatterns(Tail(entries), nodeType)
          ELSE CatchInvalidPattern(entries, nodeType)

\* Variant of the method below without the direct lookup.
getReviewRequiredNodeInfo_ScanOnly(this, nodeType) ==
  ScanReviewPatterns(this.reviewRequiredMap, nodeType)

getReviewRequiredNodeInfo(this, nodeType) ==
  IF MapHas(this.reviewRequiredMap, nodeType)
  THEN FoundInfo(MapGet(this.reviewRequiredMap, nodeType))
  ELSE ScanReviewPatterns(this.reviewRequiredMap, nodeType)

isReviewRequired(this, nodeType) == getReviewRequiredNodeInfo(this, nodeType).found

\* Variant of the method below that asks the review table first.
classify_ReviewFirst(this, nodeType) ==
  IF isReviewRequired(this, nodeType) THEN "review_required"
  ELSE IF nodeType \in this.safeNodesSet THEN "safe"
  ELSE "unknown"

classify(this, nodeType) ==
  IF nodeType \in this.safeNodesSet THEN "safe"
  ELSE IF isReviewRequired(this, nodeType) THEN "review_required"
  ELSE "unknown"

\* ========================================================= rule modules
\* CheckerRegistry.createCheckers: the node checkers, in registration order,
\* each with getSupportedNodeTypes() and the SERVICE_NAME it categorizes
\* nodes under ("" when its categorizeNode adds nothing)
NodeChecker(id, supported, service) ==
  [id |-> id, type |-> "node", supported |-> supported, service |-> service]

ScenarioChecker(id) == [id |-> id, type |-> "scenario", supported |-> <<>>, service |-> ""]

SLACK_USER_VALIDATION_SCENARIO_ID == "slack-user-validation"
GOOGLE_SHEETS_SCOPE_SCENARIO_ID == "google-sheets-scope"

createCheckers ==
  << NodeChecker(JSCODE_CHECKER_ID, <<NODE_TYPES.CODE>>, ""),
     NodeChecker(BIGQUERY_CHECKER_ID,
                 <<NODE_TYPES.GOOGLE_BIGQUERY, NODE_TYPES.GOOGLE_BIGQUERY_TOOL>>,
                 "googleBigQuery"),
     NodeChecker(SLACK_CHECKER_ID, <<NODE_TYPES.SLACK, NODE_TYPES.SLACK_TOOL>>, "slack"),
     NodeChecker(HTTPREQUEST_CHECKER_ID,
                 <<NODE_TYPES.HTTP_REQUEST, NODE_TYPES.HTTP_REQUEST_TOOL>>, "httpRequest"),
     NodeChecker(GOOGLE_SHEETS_CHECKER_ID,
                 <<NODE_TYPES.GOOGLE_SHEETS, NODE_TYPES.GOOGLE_SHEETS_TOOL>>,
                 "googleSpreadSheet"),
     NodeChecker(GOOGLE_DRIVE_CHECKER_ID,
                 <<NODE_TYPES.GOOGLE_DRIVE, NODE_TYPES.GOOGLE_DRIVE_TOOL>>, "googleDrive"),
     NodeChecker(IF_CHECKER_ID, <<NODE_TYPES.IF_NODE>>, ""),
     ScenarioChecker(SLACK_USER_VALIDATION_SCENARIO_ID),
     ScenarioChecker(GOOGLE_SHEETS_SCOPE_SCENARIO_ID) >>

getNodeCheckers(checkers) == SelectSeq(checkers, LAMBDA c : c.type = "node")

\* Variant of the filter below that returns the scenario checkers last first.
getScenarioCheckers_Reversed(checkers) ==
  LET found == SelectSeq(checkers, LAMBDA c : c.type = "scenario") IN
  [i \in DOMAIN found |-> found[Len(found) + 1 - i]]

getScenarioCheckers(checkers) == SelectSeq(checkers, LAMBDA c : c.type = "scenario")

\* NodeCategories
EmptyCategories == [triggers |-> <<>>, dataSources |-> <<>>, outputs |-> <<>>, others |-> <<>>]

PushUnique(list, x) == IF Contains(list, x) THEN list ELSE Append(list, x)

\* BaseNodeChecker.addToCategory
addToCategory(cats, category, nodeName) ==
  IF category = "trigger" THEN [cats EXCEPT !.triggers = PushUnique(@, nodeName)]
  ELSE IF category = "dataSource" THEN [cats EXCEPT !.dataSources = PushUnique(@, nodeName)]
  ELSE IF category = "output" THEN [cats EXCEPT !.outputs = PushUnique(@, nodeName)]
  ELSE IF category = "other" THEN [cats EXCEPT !.others = PushUnique(@, nodeName)]
  ELSE cats

\* What a module does when called is not decided by the orchestrator: it
\* throws from isApplicable, throws from check, or check returns without or
\* with a finding.
ModuleBehaviours == {"isApplicableThrows", "checkThrows", "pass", "detect"}

\* the nodeCategories field of a CheckResult: absent, an object of its own,
\* or the object the node checker `owner` holds in this.nodeCategories
AbsentCategories == [kind |-> "absent", owner |-> "", value |-> EmptyCategories]

OwnCategories(cats) == [kind |-> "own", owner |-> "", value |-> cats]

SharedCategories(owner) == [kind |-> "shared", owner |-> owner, value |-> EmptyCategories]

DetectionItem(checkerId, detectionCode, severity, nodeId) ==
  [checkerId |-> checkerId, detectionCode |-> detectionCode, severity |-> severity,
   nodeId |-> nodeId]

CheckResult(checkerId, passed, detectionItems, nodeCategories) ==
  [checkerId |-> checkerId, passed |-> passed, detectionItems |-> detectionItems,
   nodeCategories |-> nodeCategories]

\* BaseNodeChecker.isApplicable, for a context that holds the node
NodeCheckerIsApplicable(checker, node) == Contains(checker.supported, node.type)

\* checkNode of a node checker: categorizeNode, then the findings
CheckNodeCategory(checker, behaviour) ==
  IF checker.service = "" THEN "none"
  ELSE IF behaviour = "pass" THEN "dataSource" ELSE "output"

CheckNodeItems(checker, node, behaviour) ==
  IF behaviour = "detect"
  THEN <<DetectionItem(checker.id, "MODULE_FINDING", "error", node.id)>>
  ELSE <<>>

\* BaseNodeChecker.check(node), when checkNode returns
NodeCheckerCheck(checker, node, behaviour) ==
  LET detectionItems == CheckNodeItems(checker, node, behaviour) IN
  CheckResult(checker.id, detectionItems = <<>>, detectionItems,
              SharedCategories(checker.id))

\* an entry of the call history: the method, on what, and how it ended
Call(method, checkerId, nodeId, outcome) ==
  [method |-> method, checkerId |-> checkerId, nodeId |-> nodeId, outcome |-> outcome]

\* ============================================================ state machine
VARIABLES
  workflow,      \* the workflow handed to the program
  nodeClassifier, \* the NodeClassifier: [safeNodesSet, reviewRequiredMap]
  pc,            \* graph: "new", "built", "failed";
                 \* classifier: "classifier", "answered";
                 \* analyze: "idle", "running", "returned", "aborted"
  graph,         \* WorkflowGraph.graph: [gn, gattr, ge]
  sccs,          \* WorkflowGraph.sccs
  condensedDAG,  \* WorkflowGraph.condensedDAG: [cn, ce]
  error,         \* the error a constructor, query or analyze has thrown, or ErrNone
  answer,        \* the last query and what it returned: [op, args, value]
  nodeIdx,       \* runAllCheckers: position of the node loop
  scenIdx,       \* runAllCheckers: position of the scenario loop
  checkResults,  \* runAllCheckers: the results collected so far
  origin,        \* history: what each entry of checkResults was produced for
  checkerCategories, \* this.nodeCategories of each node checker
  calls,         \* history: the module methods invoked, in order
  logged,        \* logger.error: the ids of the modules whose failure was logged
  aggregatedCategories, \* what analyze returns as aggregatedCategories
  traversal      \* a traversal in progress: [op, args, st], st the locals of its loop

gvars == <<graph, sccs, condensedDAG>>

avars == <<nodeIdx, scenIdx, checkResults, origin, checkerCategories, calls, logged,
           aggregatedCategories>>

vars == <<workflow, nodeClassifier, pc, graph, sccs, condensedDAG, error, answer, nodeIdx, scenIdx,
          checkResults, origin, checkerCategories, calls, logged, aggregatedCategories,
          traversal>>

NoAnswer == [op |-> "none", args |-> <<>>, value |-> <<>>]

NoGraph == [gn |-> <<>>, gattr |-> <<>>, ge |-> <<>>]

NoDAG == [cn |-> <<>>, ce |-> <<>>]

NoTraversal == [op |-> "none", args |-> <<>>, st |-> TraversalStart("")]

InitWith(w, start) ==
  /\ workflow = w
  /\ nodeClassifier = NodeClassifier(SECURITY_CONFIG)
  /\ pc = start
  /\ graph = NoGraph
  /\ sccs = <<>>
  /\ condensedDAG = NoDAG
  /\ error = ErrNone
  /\ answer = NoAnswer
  /\ nodeIdx = 1
  /\ scenIdx = 1
  /\ checkResults = <<>>
  /\ origin = <<>>
  /\ checkerCategories = <<>>
  /\ calls = <<>>
  /\ logged = <<>>
  /\ aggregatedCategories = EmptyCategories
  /\ traversal = NoTraversal

Init == \E w \in GraphWorkflows : InitWith(w, "new")

\* new WorkflowGraph(nodes, connections)
Construct ==
  /\ pc = "new"
  /\ LET g == BuildGraph(workflow) IN
     IF g.err # ErrNone
     THEN /\ pc' = "failed"
          /\ error' = g.err
          /\ UNCHANGED <<graph, sccs, condensedDAG>>
     ELSE LET s == findSCCs(g.gn, g.ge) IN
          /\ pc' = "built"
          /\ graph' = [gn |-> g.gn, gattr |-> g.gattr, ge |-> g.ge]
          /\ sccs' = s
          /\ condensedDAG' = createCondensedDAG(s, g.ge)
          /\ error' = ErrNone
  /\ UNCHANGED <<workflow, traversal, nodeClassifier, answer>>
  /\ UNCHANGED avars

\* Variant of the operator below in which answering drops the stored SCCs.
Query_DropsSCCs(op, args, value) ==
  /\ pc = "built"
  /\ answer' = [op |-> op, args |-> args, value |-> value]
  /\ sccs' = <<>>
  /\ UNCHANGED <<workflow, traversal, nodeClassifier, pc, graph, condensedDAG, error>>
  /\ UNCHANGED avars

Query(op, args, value) ==
  /\ pc = "built"
  /\ answer' = [op |-> op, args |-> args, value |-> value]
  /\ UNCHANGED <<workflow, traversal, nodeClassifier, pc, graph, sccs, condensedDAG, error>>
  /\ UNCHANGED avars

GetSCCs == Query("getSCCs", <<>>, sccs)

GetCondensedDAG == Query("getCondensedDAG", <<>>, condensedDAG)

GetTopologicalOrder ==
  Query("getTopologicalOrder", <<>>, getTopologicalOrder(condensedDAG))

GetExecutionOrder ==
  Query("getExecutionOrder", <<>>, getExecutionOrder(sccs, condensedDAG))

\* the ids a caller may ask about: the pool, and a string that is no node
QueryIds == {IdPool[i] : i \in 1..MaxNodes} \cup {"zz"}

GetPathFromNodeToNode ==
  \E a \in QueryIds, b \in QueryIds :
     Query("getPathFromNodeToNode", <<a, b>>,
           getPathFromNodeToNode(graph.gn, graph.gattr, graph.ge, a, b))

GetAllSubsequentNodes ==
  \E n \in QueryIds :
     Query("getAllSubsequentNodes", <<n>>, getAllSubsequentNodes(graph.gn, graph.ge, n))

GetAllPrecedingNodes ==
  \E n \in QueryIds :
     Query("getAllPrecedingNodes", <<n>>, getAllPrecedingNodes(graph.gn, graph.ge, n))

GetNodeDependencies ==
  \E n \in QueryIds :
     Query("getNodeDependencies", <<n>>, getNodeDependencies(graph.gn, graph.ge, n))

GetNodeDependents ==
  \E n \in QueryIds :
     Query("getNodeDependents", <<n>>, getNodeDependents(graph.gn, graph.ge, n))

GetLoopSCCs == Query("getLoopSCCs", <<>>, getLoopSCCs(sccs))

HasCircularDependencies ==
  Query("hasCircularDependencies", <<>>, hasCircularDependencies(sccs))

GetLoopInfo == Query("getLoopInfo", <<>>, getLoopInfo(sccs, graph.ge))

ExportGraph == Query("exportGraph", <<>>, exportGraph(graph.gn, graph.gattr, graph.ge))

Next ==
  \/ Construct
  \/ GetSCCs
  \/ GetCondensedDAG
  \/ GetTopologicalOrder
  \/ GetExecutionOrder
  \/ GetPathFromNodeToNode
  \/ GetAllSubsequentNodes
  \/ GetAllPrecedingNodes
  \/ GetNodeDependencies
  \/ GetNodeDependents
  \/ GetLoopSCCs
  \/ HasCircularDependencies
  \/ GetLoopInfo
  \/ ExportGraph

Spec == Init /\ [][Next]_vars

\* ======================================================= WorkflowAnalyzer
ErrModuleThrew == "a rule module threw"

SAFE_NODE_CLASSIFIER_ID == "safe-node-classifier"
UNIMPLEMENTED_NODE_CHECKER_ID == "unimplemented-node-checker"
UNKNOWN_NODE_CLASSIFIER_ID == "unknown-node-classifier"

SafeNodeResult(node) ==
  CheckResult(SAFE_NODE_CLASSIFIER_ID, TRUE,
              <<DetectionItem(SAFE_NODE_CLASSIFIER_ID, "SAFE_NODE_CONFIRMED", "none", node.id)>>,
              AbsentCategories)

\* Variant of the result below without categories.
UnimplementedNodeResult_NoCategories(node) ==
  CheckResult(UNIMPLEMENTED_NODE_CHECKER_ID, FALSE,
              <<DetectionItem(UNIMPLEMENTED_NODE_CHECKER_ID,
                              "UNIMPLEMENTED_NODE_REVIEW_REQUIRED", "warning", node.id)>>,
              AbsentCategories)

UnimplementedNodeResult(node) ==
  CheckResult(UNIMPLEMENTED_NODE_CHECKER_ID, FALSE,
              <<DetectionItem(UNIMPLEMENTED_NODE_CHECKER_ID,
                              "UNIMPLEMENTED_NODE_REVIEW_REQUIRED", "warning", node.id)>>,
              OwnCategories([EmptyCategories EXCEPT !.others = <<node.type>>]))

\* Variant of the result below at the level its comment names: 'note'.
UnknownNodeResult_Note(node) ==
  CheckResult(UNKNOWN_NODE_CLASSIFIER_ID, TRUE,
              <<DetectionItem(UNKNOWN_NODE_CLASSIFIER_ID,
                              "UNKNOWN_NODE_NEEDS_CLASSIFICATION", "note", node.id)>>,
              AbsentCategories)

UnknownNodeResult(node) ==
  CheckResult(UNKNOWN_NODE_CLASSIFIER_ID, TRUE,
              <<DetectionItem(UNKNOWN_NODE_CLASSIFIER_ID,
                              "UNKNOWN_NODE_NEEDS_CLASSIFICATION", "warning", node.id)>>,
              AbsentCategories)

\* createCheckerContext: context.nodes, a Map from node id to node
RECURSIVE nodesMap(_, _)
nodesMap(m, nodes) ==
  IF nodes = <<>> THEN m
  ELSE nodesMap(MapSet(m, Head(nodes).id, Head(nodes)), Tail(nodes))

ContextNodes(w) == LET m == nodesMap(<<>>, w.nodes) IN [i \in DOMAIN m |-> m[i][2]]

\* GoogleSheetsSchemaValidator.mapToTypedParams: the defaults of n8n
GoogleSheetsGetDefaultOperation(resource) ==
  IF resource = GOOGLE_SHEETS_RESOURCES.DOCUMENT THEN DOCUMENT_OPERATIONS.CREATE
  ELSE IF resource = GOOGLE_SHEETS_RESOURCES.SHEET_WITHIN_DOCUMENT
       THEN SHEET_WITHIN_DOCUMENT_OPERATIONS.GET_ROWS
       ELSE ""

GoogleSheetsMapToTypedParams(rawParams) ==
  LET resource == IF rawParams.resource = ""
                  THEN GOOGLE_SHEETS_RESOURCES.SHEET_WITHIN_DOCUMENT
                  ELSE rawParams.resource
      operation == IF rawParams.operation = ""
                   THEN GoogleSheetsGetDefaultOperation(resource)
                   ELSE rawParams.operation
  IN [hasParams |-> operation # "", resource |-> resource, operation |-> operation]

isGoogleSheetsCreationNode(node) ==
  IF node.type # NODE_TYPES.GOOGLE_SHEETS THEN FALSE
  ELSE LET mappingResult == GoogleSheetsMapToTypedParams(node.parameters) IN
       /\ mappingResult.hasParams
       /\ mappingResult.resource = GOOGLE_SHEETS_RESOURCES.DOCUMENT
       /\ mappingResult.operation = DOCUMENT_OPERATIONS.CREATE

\* isApplicable(context) of the two scenario checkers, when it returns
ScenarioIsApplicable(checker, contextNodes) ==
  IF checker.id = SLACK_USER_VALIDATION_SCENARIO_ID
  THEN \E i \in DOMAIN contextNodes : contextNodes[i].type = NODE_TYPES.SLACK_TRIGGER
  ELSE IF checker.id = GOOGLE_SHEETS_SCOPE_SCENARIO_ID
       THEN \E i \in DOMAIN contextNodes : isGoogleSheetsCreationNode(contextNodes[i])
       ELSE FALSE

\* BaseScenarioChecker.check(), when checkScenario returns
ScenarioCheckerCheck(checker, contextNodes, behaviour) ==
  IF ~ScenarioIsApplicable(checker, contextNodes)
  THEN CheckResult(checker.id, TRUE, <<>>, AbsentCategories)
  ELSE LET detectionItems ==
             IF behaviour = "detect"
             THEN <<DetectionItem(checker.id, "MODULE_FINDING", "error", "")>>
             ELSE <<>>
       IN CheckResult(checker.id, detectionItems = <<>>, detectionItems, AbsentCategories)

\* The node loop of runAllCheckers works on st = [aborted, checked, results,
\* categories, calls, logged].
\* Variant of the catch block below that throws the error again.
CatchNodeCheckerError_Rethrow(st, checker) == [st EXCEPT !.aborted = TRUE]

\* the catch block of the node checker loop: logger.error, nothing else
CatchNodeCheckerError(st, checker) == [st EXCEPT !.logged = Append(@, checker.id)]

\* Variant of the three statements below without the break.
ForwardResult_NoBreak(st, result) == [st EXCEPT !.results = Append(@, result)]

\* checkResults.push(result); checked = true; break
ForwardResult(st, result) ==
  [st EXCEPT !.results = Append(@, result), !.checked = TRUE]

RECURSIVE RunNodeCheckers(_, _, _, _, _)
\* for (const checker of nodeCheckers) { if (isApplicable) try { check } catch }
RunNodeCheckers(nodeCheckers, k, node, behaviour, st) ==
  IF st.aborted \/ st.checked \/ k > Len(nodeCheckers) THEN st
  ELSE LET checker == nodeCheckers[k]
           applies == NodeCheckerIsApplicable(checker, node)
           throws == applies /\ behaviour = "isApplicableThrows"
           asked == [st EXCEPT
                       !.calls = Append(@, Call("isApplicable", checker.id, node.id,
                                                IF throws THEN "threw"
                                                ELSE IF applies THEN "true" ELSE "false"))]
       IN IF throws
          THEN [asked EXCEPT !.aborted = TRUE]
          ELSE IF ~applies
          THEN RunNodeCheckers(nodeCheckers, k + 1, node, behaviour, asked)
          ELSE LET called == [asked EXCEPT
                                !.calls = Append(@, Call("check", checker.id, node.id,
                                                         IF behaviour = "checkThrows"
                                                         THEN "threw" ELSE "returned"))]
               IN IF behaviour = "checkThrows"
                  THEN RunNodeCheckers(nodeCheckers, k + 1, node, behaviour,
                                       CatchNodeCheckerError(called, checker))
                  ELSE RunNodeCheckers(
                         nodeCheckers, k + 1, node, behaviour,
                         ForwardResult(
                            [called EXCEPT
                               !.categories =
                                  [@ EXCEPT ![checker.id] =
                                     addToCategory(@, CheckNodeCategory(checker, behaviour),
                                                   checker.service)]],
                            NodeCheckerCheck(checker, node, behaviour)))

\* the body of `for (const node of nodes)` in runAllCheckers
ProcessNodeBody(nodeCheckers, node, behaviour, st) ==
  LET classification == classify(nodeClassifier, node.type) IN
  IF classification = "safe"
  THEN [st EXCEPT !.results = Append(@, SafeNodeResult(node))]
  ELSE IF classification = "review_required"
  THEN LET reviewInfo == getReviewRequiredNodeInfo(nodeClassifier, node.type)
           after == IF reviewInfo.found /\ reviewInfo.info.hasChecker
                    THEN RunNodeCheckers(nodeCheckers, 1, node, behaviour, st)
                    ELSE st
       IN IF after.aborted \/ after.checked THEN after
          ELSE [after EXCEPT !.results = Append(@, UnimplementedNodeResult(node))]
  ELSE [st EXCEPT !.results = Append(@, UnknownNodeResult(node))]

\* Variant of the catch block below that throws the error again.
CatchScenarioCheckerError_Rethrow(st, checker) == [st EXCEPT !.aborted = TRUE]

\* the catch block of the scenario loop: logger.error, nothing else
CatchScenarioCheckerError(st, checker) == [st EXCEPT !.logged = Append(@, checker.id)]

\* the body of `for (const checker of scenarioCheckers)` in runAllCheckers
RunScenarioBody(checker, contextNodes, behaviour, st) ==
  LET applies == ScenarioIsApplicable(checker, contextNodes)
      asked == [st EXCEPT
                  !.calls = Append(@, Call("isApplicable", checker.id, "",
                                           IF behaviour = "isApplicableThrows" THEN "threw"
                                           ELSE IF applies THEN "true" ELSE "false"))]
  IN
  IF behaviour = "isApplicableThrows" THEN [asked EXCEPT !.aborted = TRUE]
  ELSE IF ~applies THEN asked
  ELSE LET called == [asked EXCEPT
                        !.calls = Append(@, Call("check", checker.id, "",
                                                 IF behaviour = "checkThrows"
                                                 THEN "threw" ELSE "returned"))] IN
       IF behaviour = "checkThrows" THEN CatchScenarioCheckerError(called, checker)
       ELSE [called EXCEPT
               !.results = Append(@, ScenarioCheckerCheck(checker, contextNodes, behaviour))]

\* the categories a result refers to
ResultCategories(result, categories) ==
  IF result.nodeCategories.kind = "shared" THEN categories[result.nodeCategories.owner]
  ELSE result.nodeCategories.value

\* Variant of the operator below that keeps repeated names.
AddAll_NoDedupe(list, names) == list \o names

RECURSIVE AddAll(_, _)
\* Set.add of each name, in order
AddAll(list, names) ==
  IF names = <<>> THEN list ELSE AddAll(PushUnique(list, Head(names)), Tail(names))

RECURSIVE aggregateNodeCategories(_, _, _)
aggregateNodeCategories(aggregated, results, categories) ==
  IF results = <<>> THEN aggregated
  ELSE LET result == Head(results)
           c == ResultCategories(result, categories)
           next == IF result.nodeCategories.kind = "absent" THEN aggregated
                   ELSE [triggers |-> AddAll(aggregated.triggers, c.triggers),
                         dataSources |-> AddAll(aggregated.dataSources, c.dataSources),
                         outputs |-> AddAll(aggregated.outputs, c.outputs),
                         others |-> AddAll(aggregated.others, c.others)]
       IN aggregateNodeCategories(next, Tail(results), categories)

LoopState ==
  [aborted |-> FALSE, checked |-> FALSE, results |-> checkResults,
   categories |-> checkerCategories, calls |-> calls, logged |-> logged]

\* what a step of runAllCheckers leaves behind; `by` is what it worked for
Leave(st, by) ==
  /\ checkResults' = st.results
  /\ origin' = IF Len(st.results) > Len(checkResults) THEN Append(origin, by) ELSE origin
  /\ checkerCategories' = st.categories
  /\ calls' = st.calls
  /\ logged' = st.logged
  /\ IF st.aborted
     THEN pc' = "aborted" /\ error' = ErrModuleThrew
     ELSE pc' = pc /\ error' = error

\* analyze(workflowData), up to the call of runAllCheckers:
\* createCheckerContext and createCheckers
AnalyzeStart ==
  /\ pc = "idle"
  /\ LET g == BuildGraph(workflow) IN
     IF g.err # ErrNone
     THEN /\ pc' = "aborted"
          /\ error' = g.err
          /\ UNCHANGED <<gvars, checkerCategories>>
     ELSE LET s == findSCCs(g.gn, g.ge) IN
          /\ pc' = "running"
          /\ graph' = [gn |-> g.gn, gattr |-> g.gattr, ge |-> g.ge]
          /\ sccs' = s
          /\ condensedDAG' = createCondensedDAG(s, g.ge)
          /\ error' = ErrNone
          /\ checkerCategories' =
               [id \in {c.id : c \in Range(getNodeCheckers(createCheckers))} |->
                  EmptyCategories]
  /\ UNCHANGED <<workflow, traversal, nodeClassifier, answer, nodeIdx, scenIdx, checkResults, origin, calls, logged,
                 aggregatedCategories>>

\* one round of the node loop
ProcessNode ==
  /\ pc = "running"
  /\ nodeIdx <= Len(workflow.nodes)
  /\ \E behaviour \in ModuleBehaviours :
        LET node == workflow.nodes[nodeIdx] IN
        Leave(ProcessNodeBody(getNodeCheckers(createCheckers), node, behaviour, LoopState),
              [kind |-> "node", id |-> node.id])
  /\ nodeIdx' = nodeIdx + 1
  /\ UNCHANGED <<workflow, traversal, nodeClassifier, gvars, answer, scenIdx, aggregatedCategories>>

\* one round of the scenario loop
RunScenario ==
  /\ pc = "running"
  /\ nodeIdx > Len(workflow.nodes)
  /\ scenIdx <= Len(getScenarioCheckers(createCheckers))
  /\ \E behaviour \in ModuleBehaviours :
        LET checker == getScenarioCheckers(createCheckers)[scenIdx] IN
        Leave(RunScenarioBody(checker, ContextNodes(workflow), behaviour, LoopState),
              [kind |-> "scenario", id |-> checker.id])
  /\ scenIdx' = scenIdx + 1
  /\ UNCHANGED <<workflow, traversal, nodeClassifier, gvars, answer, nodeIdx, aggregatedCategories>>

\* runAllCheckers returns; aggregateNodeCategories; analyze returns
AnalyzeReturn ==
  /\ pc = "running"
  /\ nodeIdx > Len(workflow.nodes)
  /\ scenIdx > Len(getScenarioCheckers(createCheckers))
  /\ pc' = "returned"
  /\ aggregatedCategories' =
       aggregateNodeCategories(EmptyCategories, checkResults, checkerCategories)
  /\ UNCHANGED <<workflow, traversal, nodeClassifier, gvars, error, answer, nodeIdx, scenIdx, checkResults, origin,
                 checkerCategories, calls, logged>>

InitAnalyze == \E w \in AnalyzedWorkflows : InitWith(w, "idle")

NextAnalyze ==
  \/ AnalyzeStart
  \/ ProcessNode
  \/ RunScenario
  \/ AnalyzeReturn

SpecAnalyze == InitAnalyze /\ [][NextAnalyze]_vars

\* ------------------------------------------- NodeClassifier, on its own
MaxTypeLen == 4

\* the pieces the queried type strings are made of
TypePieces == {Base, ".", "-", "slack", "Trigger", "Tool", "("}

\* the type strings a caller may ask about
QueryTypes ==
  UNION {[1..n -> TypePieces] : n \in 0..MaxTypeLen}
  \cup {NODE_TYPES[f] : f \in DOMAIN NODE_TYPES}
  \cup {UnlistedType}

\* a table with an entry written as a pattern ahead of literal entries it
\* also matches, and a safe list that names types the table matches
PatternConfig ==
  [safeNodes |-> <<NODE_TYPES.SET, NODE_TYPES.SLACK_TOOL, NODE_TYPES.WEBHOOK>>,
   reviewRequiredNodes |->
     << ReviewEntry(<<"^", Base, "\\.", "slack", ".*">>, FALSE, NoCheckerId, TRUE),
        ReviewEntry(NODE_TYPES.SLACK_TRIGGER, FALSE, NoCheckerId, FALSE),
        ReviewEntry(NODE_TYPES.SLACK, TRUE, SLACK_CHECKER_ID, TRUE),
        ReviewEntry(NODE_TYPES.WEBHOOK, FALSE, NoCheckerId, TRUE) >>]

\* a table with entries that are no valid regular expression
InvalidPatternConfig ==
  [safeNodes |-> <<NODE_TYPES.SET>>,
   reviewRequiredNodes |->
     << ReviewEntry(<<Base, ".", "(", "slack">>, FALSE, NoCheckerId, FALSE),
        ReviewEntry(NODE_TYPES.SLACK, TRUE, SLACK_CHECKER_ID, TRUE),
        ReviewEntry(<<"(", "Tool">>, FALSE, NoCheckerId, TRUE),
        ReviewEntry(<<Base, "\\.", "slack", "Trigger", "$">>, FALSE, NoCheckerId, TRUE) >>]

\* the configurations the classifier is built over: the shipped one, and two
\* that use what the table format allows
ClassifierConfigs == {SECURITY_CONFIG, PatternConfig, InvalidPatternConfig}

InitClassify ==
  /\ \E config \in ClassifierConfigs : nodeClassifier = NodeClassifier(config)
  /\ workflow = [nodes |-> <<>>, connections |-> <<>>]
  /\ pc = "classifier"
  /\ graph = NoGraph
  /\ sccs = <<>>
  /\ condensedDAG = NoDAG
  /\ error = ErrNone
  /\ answer = NoAnswer
  /\ nodeIdx = 1
  /\ scenIdx = 1
  /\ checkResults = <<>>
  /\ origin = <<>>
  /\ checkerCategories = <<>>
  /\ calls = <<>>
  /\ logged = <<>>
  /\ aggregatedCategories = EmptyCategories
  /\ traversal = NoTraversal

ClassifierCall(op, nodeType, value) ==
  /\ pc = "classifier"
  /\ pc' = "answered"
  /\ answer' = [op |-> op, args |-> <<nodeType>>, value |-> value]
  /\ UNCHANGED <<workflow, traversal, nodeClassifier, gvars, error>>
  /\ UNCHANGED avars

\* nodeClassifier.classify(nodeType)
Classify ==
  \E nodeType \in QueryTypes :
     ClassifierCall("classify", nodeType, classify(nodeClassifier, nodeType))

\* nodeClassifier.getReviewRequiredNodeInfo(nodeType)
GetReviewRequiredNodeInfo ==
  \E nodeType \in QueryTypes :
     ClassifierCall("getReviewRequiredNodeInfo", nodeType,
                    getReviewRequiredNodeInfo(nodeClassifier, nodeType))

NextClassify ==
  \/ Classify
  \/ GetReviewRequiredNodeInfo

SpecClassify == InitClassify /\ [][NextClassify]_vars

\* ================================= WorkflowGraph: the traversals, by round
MaxTraversalNodes == 3
MaxTraversalEdges == 3

\* graphs of up to maxNodes nodes and maxEdges edges, self-edges included
TraversalWorkflows(maxNodes, maxEdges) ==
  UNION {{MkWorkflow(n, E) :
            E \in {F \in SUBSET Range(PairSeq(n)) : Cardinality(F) <= maxEdges}} :
           n \in 0..maxNodes}

TraversalIds == {IdPool[i] : i \in 1..MaxTraversalNodes} \cup {"zz"}

\* the state after new WorkflowGraph(workflow)
InitTraversal ==
  /\ workflow \in TraversalWorkflows(MaxTraversalNodes, MaxTraversalEdges)
  /\ nodeClassifier = NodeClassifier(SECURITY_CONFIG)
  /\ pc = "built"
  /\ graph = [gn |-> BuildGraph(workflow).gn, gattr |-> BuildGraph(workflow).gattr,
              ge |-> BuildGraph(workflow).ge]
  /\ sccs = findSCCs(graph.gn, graph.ge)
  /\ condensedDAG = createCondensedDAG(sccs, graph.ge)
  /\ error = ErrNone
  /\ answer = NoAnswer
  /\ nodeIdx = 1
  /\ scenIdx = 1
  /\ checkResults = <<>>
  /\ origin = <<>>
  /\ checkerCategories = <<>>
  /\ calls = <<>>
  /\ logged = <<>>
  /\ aggregatedCategories = EmptyCategories
  /\ traversal = NoTraversal

TraversalDirection(op) == IF op = "getAllSubsequentNodes" THEN "out" ELSE "in"

\* a method is called: it returns at once, or enters its while loop
EnterLoop(op, args, returnsAtOnce, value, st) ==
  /\ pc = "built"
  /\ IF returnsAtOnce
     THEN /\ pc' = "walked"
          /\ answer' = [op |-> op, args |-> args, value |-> value]
          /\ traversal' = [op |-> op, args |-> args, st |-> [st EXCEPT !.queue = <<>>]]
     ELSE /\ pc' = "walking"
          /\ answer' = answer
          /\ traversal' = [op |-> op, args |-> args, st |-> st]
  /\ UNCHANGED <<workflow, nodeClassifier, gvars, error>>
  /\ UNCHANGED avars

StartSubsequentNodes ==
  \E nodeId \in {IdPool[1], "zz"} :
     EnterLoop("getAllSubsequentNodes", <<nodeId>>, ~hasNode(graph.gn, nodeId), <<>>,
               TraversalStart(nodeId))

StartPrecedingNodes ==
  \E nodeId \in {IdPool[1], "zz"} :
     EnterLoop("getAllPrecedingNodes", <<nodeId>>, ~hasNode(graph.gn, nodeId), <<>>,
               TraversalStart(nodeId))

StartPath ==
  \E sourceNodeId \in {IdPool[1], "zz"}, targetNodeId \in TraversalIds :
     EnterLoop("getPathFromNodeToNode", <<sourceNodeId, targetNodeId>>,
               \/ ~hasNode(graph.gn, sourceNodeId)
               \/ ~hasNode(graph.gn, targetNodeId)
               \/ sourceNodeId = targetNodeId,
               getPathFromNodeToNode(graph.gn, graph.gattr, graph.ge, sourceNodeId,
                                     targetNodeId),
               PathSearchStart(sourceNodeId))

LoopGoesOn ==
  /\ pc = "walking"
  /\ traversal.st.queue # <<>>
  /\ traversal.op = "getPathFromNodeToNode" => ~traversal.st.found

\* Variant of the action below in which a node that was visited before goes
\* back to the end of the queue.
LoopRound_Requeue ==
  /\ LoopGoesOn
  /\ LET st == traversal.st
         currentNodeId == IF traversal.op = "getPathFromNodeToNode"
                          THEN Head(st.queue).nodeId
                          ELSE Head(st.queue)
     IN traversal' = [traversal EXCEPT !.st =
                        IF currentNodeId \in st.visited
                        THEN [st EXCEPT !.queue = Tail(st.queue) \o <<Head(st.queue)>>]
                        ELSE IF traversal.op = "getPathFromNodeToNode"
                        THEN PathSearchStep(graph.ge, st, traversal.args[2])
                        ELSE TraversalStep(graph.ge, TraversalDirection(traversal.op), st,
                                           traversal.args[1])]
  /\ UNCHANGED <<workflow, nodeClassifier, pc, gvars, error, answer>>
  /\ UNCHANGED avars

\* one round of the while loop
LoopRound ==
  /\ LoopGoesOn
  /\ traversal' = [traversal EXCEPT !.st =
                     IF traversal.op = "getPathFromNodeToNode"
                     THEN PathSearchStep(graph.ge, @, traversal.args[2])
                     ELSE TraversalStep(graph.ge, TraversalDirection(traversal.op), @,
                                        traversal.args[1])]
  /\ UNCHANGED <<workflow, nodeClassifier, pc, gvars, error, answer>>
  /\ UNCHANGED avars

\* the loop is left and the method returns
LoopReturn ==
  /\ pc = "walking"
  /\ ~LoopGoesOn
  /\ pc' = "walked"
  /\ answer' = [op |-> traversal.op, args |-> traversal.args,
                value |-> IF traversal.op = "getPathFromNodeToNode"
                          THEN [i \in DOMAIN traversal.st.result |->
                                  getNodeById(graph.gn, graph.gattr, traversal.st.result[i])]
                          ELSE traversal.st.result]
  /\ UNCHANGED <<workflow, nodeClassifier, gvars, error, traversal>>
  /\ UNCHANGED avars

NextTraversal ==
  \/ StartSubsequentNodes
  \/ StartPrecedingNodes
  \/ StartPath
  \/ LoopRound
  \/ LoopReturn

\* the methods are synchronous: a loop that can go on does, and a loop that
\* is over returns
SpecTraversal ==
  InitTraversal /\ [][NextTraversal]_vars /\ WF_vars(LoopRound) /\ WF_vars(LoopReturn)

\* ============================================== scenario checkers, alone
MaxScopeNodes == 3
MaxScopeEdges == 2

GOOGLE_DRIVE_RESOURCES ==
  [FILE |-> "file", FOLDER |-> "folder", FILE_FOLDER |-> "fileFolder",
   SHARED_DRIVE |-> "drive"]

GOOGLE_DRIVE_FILE_OPERATIONS == [SHARE |-> "share", UPLOAD |-> "upload"]

GOOGLE_DRIVE_FOLDER_OPERATIONS == [CREATE |-> "create", SHARE |-> "share"]

PERMISSION_OPERATIONS ==
  <<GOOGLE_DRIVE_FILE_OPERATIONS.SHARE, GOOGLE_DRIVE_FOLDER_OPERATIONS.SHARE>>

\* /googleapis\.com\/drive\/v3\/files\/.*\/permissions/i, in pieces
GOOGLE_DRIVE_URL_PATTERNS ==
  [PERMISSIONS |-> <<"googleapis", "\\.", "com/drive/v3/files/", ".*", "/permissions">>]

PermissionsUrl ==
  <<"https://www.", "googleapis", ".", "com/drive/v3/files/", "fileId", "/permissions">>

FilesUrl == <<"https://www.", "googleapis", ".", "com/drive/v3/files/", "fileId">>

UppercaseUrl == <<"HTTPS://WWW.", "GOOGLEAPIS", ".", "COM/DRIVE/V3/FILES/", "/PERMISSIONS">>

\* String.prototype.toLowerCase on the pieces urls are made of
toLowerCase(piece) ==
  CASE piece = "HTTPS://WWW." -> "https://www."
    [] piece = "GOOGLEAPIS" -> "googleapis"
    [] piece = "COM/DRIVE/V3/FILES/" -> "com/drive/v3/files/"
    [] piece = "/PERMISSIONS" -> "/permissions"
    [] OTHER -> piece

\* a pattern with the i flag, written in lower case, tested against a text
RegexTestIgnoreCase(pattern, text) ==
  RegexTest(pattern, [i \in DOMAIN text |-> toLowerCase(text[i])])

\* the kinds of node the larger workflows of the scope scenario are made of:
\* one that creates a spreadsheet, one that sets the scope, one that does
\* neither
ScopeRoles ==
  {[type |-> NODE_TYPES.GOOGLE_SHEETS, parameters |-> CreateSpreadsheet],
   [type |-> NODE_TYPES.GOOGLE_DRIVE,
    parameters |-> [NoParameters EXCEPT !.operation = GOOGLE_DRIVE_FILE_OPERATIONS.SHARE]],
   [type |-> NODE_TYPES.GOOGLE_DRIVE, parameters |-> NoParameters]}

\* the kinds of node of the smaller ones: also requests, a spreadsheet node
\* without an operation, a sheet node, and a folder shared
ScopeKinds ==
  ScopeRoles \cup
  {[type |-> NODE_TYPES.HTTP_REQUEST,
    parameters |-> [NoParameters EXCEPT !.url = PermissionsUrl]],
   [type |-> NODE_TYPES.GOOGLE_SHEETS,
    parameters |-> [NoParameters EXCEPT !.resource = GOOGLE_SHEETS_RESOURCES.DOCUMENT]],
   [type |-> NODE_TYPES.GOOGLE_SHEETS, parameters |-> NoParameters],
   [type |-> NODE_TYPES.GOOGLE_DRIVE,
    parameters |-> [NoParameters EXCEPT !.resource = GOOGLE_DRIVE_RESOURCES.FOLDER,
                                        !.operation = GOOGLE_DRIVE_FOLDER_OPERATIONS.SHARE]],
   [type |-> NODE_TYPES.HTTP_REQUEST,
    parameters |-> [NoParameters EXCEPT !.url = FilesUrl]],
   [type |-> NODE_TYPES.HTTP_REQUEST,
    parameters |-> [NoParameters EXCEPT !.url = UppercaseUrl]]}

\* connections between different nodes, up to maxEdges of them
ScenarioEdgeSets(n, maxEdges) ==
  {E \in SUBSET {q \in Range(PairSeq(n)) : q[1] # q[2]} : Cardinality(E) <= maxEdges}

ScenarioWorkflow(ks, E) ==
  [nodes |-> [i \in DOMAIN ks |-> [MkNode(i, ks[i].type) EXCEPT
                                      !.parameters = ks[i].parameters]],
   connections |-> EntriesFrom(1, Len(ks), E)]

ScenarioWorkflowsOf(kinds, n, maxEdges) ==
  {ScenarioWorkflow(ks, E) : ks \in [1..n -> kinds], E \in ScenarioEdgeSets(n, maxEdges)}

\* workflows of fewer than maxNodes nodes of any kind, and of maxNodes nodes
\* of ScopeRoles
ScopeWorkflows(maxNodes, maxEdges) ==
  UNION {ScenarioWorkflowsOf(ScopeKinds, n, maxEdges) : n \in 0..(maxNodes - 1)}
  \cup ScenarioWorkflowsOf(ScopeRoles, maxNodes, maxEdges)

\* BaseScenarioChecker.getNodeById: this.nodes.get(id)
ScenarioGetNodeById(contextNodes, id) ==
  IF \E i \in DOMAIN contextNodes : contextNodes[i].id = id
  THEN [found |-> TRUE,
        node |-> contextNodes[CHOOSE i \in DOMAIN contextNodes : contextNodes[i].id = id]]
  ELSE [found |-> FALSE, node |-> MkNode(1, <<>>)]

ScenarioDetectionItem(checkerId, detectionCode, severity, node, relatedNodes) ==
  [checkerId |-> checkerId, detectionCode |-> detectionCode, severity |-> severity,
   nodeId |-> node.id, relatedNodes |-> [i \in DOMAIN relatedNodes |-> relatedNodes[i].id]]

\* ------------------------------------------- GoogleSheetsScopeScenario
GOOGLE_SHEETS_SCOPE_DETECTION_CODES ==
  [MISSING_SCOPE_AFTER_CREATION |-> "google-sheets-missing-scope"]

GoogleDriveGetDefaultOperation(resource) ==
  IF resource = GOOGLE_DRIVE_RESOURCES.FOLDER THEN GOOGLE_DRIVE_FOLDER_OPERATIONS.CREATE
  ELSE IF resource = GOOGLE_DRIVE_RESOURCES.FILE THEN GOOGLE_DRIVE_FILE_OPERATIONS.UPLOAD
  ELSE IF resource = GOOGLE_DRIVE_RESOURCES.FILE_FOLDER THEN "search"
  ELSE IF resource = GOOGLE_DRIVE_RESOURCES.SHARED_DRIVE THEN "create"
  ELSE ""

GoogleDriveMapToTypedParams(rawParams) ==
  LET resource == IF rawParams.resource = "" THEN GOOGLE_DRIVE_RESOURCES.FILE
                  ELSE rawParams.resource
      operation == IF rawParams.operation = ""
                   THEN GoogleDriveGetDefaultOperation(resource)
                   ELSE rawParams.operation
  IN [hasParams |-> operation # "", resource |-> resource, operation |-> operation]

\* Variant of the operator below for which every Google Drive node and every
\* HTTP Request node sets the scope.
isScopeSettingNode_AnyOperation(node) ==
  node.type \in {NODE_TYPES.GOOGLE_DRIVE, NODE_TYPES.HTTP_REQUEST}

isScopeSettingNode(node) ==
  IF node.type = NODE_TYPES.GOOGLE_DRIVE
  THEN LET mappingResult == GoogleDriveMapToTypedParams(node.parameters) IN
       IF ~mappingResult.hasParams
       THEN Contains(PERMISSION_OPERATIONS, node.parameters.operation)
       ELSE Contains(PERMISSION_OPERATIONS, mappingResult.operation)
  ELSE IF node.type = NODE_TYPES.HTTP_REQUEST
       THEN RegexTestIgnoreCase(GOOGLE_DRIVE_URL_PATTERNS.PERMISSIONS, node.parameters.url)
       ELSE FALSE

getDownstreamScopeNodes(gn, ge, contextNodes, creationNodeId) ==
  LET downstreamNodeIds == getAllSubsequentNodes(gn, ge, creationNodeId)
      found == [i \in DOMAIN downstreamNodeIds |->
                  ScenarioGetNodeById(contextNodes, downstreamNodeIds[i])]
      scope == SelectSeq(found, LAMBDA r : r.found /\ isScopeSettingNode(r.node))
  IN [i \in DOMAIN scope |-> scope[i].node]

checkCreationNodeScope(checkerId, gn, ge, contextNodes, creationNode) ==
  IF getDownstreamScopeNodes(gn, ge, contextNodes, creationNode.id) = <<>>
  THEN <<ScenarioDetectionItem(checkerId,
                               GOOGLE_SHEETS_SCOPE_DETECTION_CODES.MISSING_SCOPE_AFTER_CREATION,
                               "error", creationNode, <<>>)>>
  ELSE <<>>

RECURSIVE ForEachCreationNode(_, _, _, _, _)
ForEachCreationNode(checkerId, gn, ge, contextNodes, creationNodes) ==
  IF creationNodes = <<>> THEN <<>>
  ELSE checkCreationNodeScope(checkerId, gn, ge, contextNodes, Head(creationNodes))
       \o ForEachCreationNode(checkerId, gn, ge, contextNodes, Tail(creationNodes))

GoogleSheetsScopeCheckScenario(gn, ge, contextNodes) ==
  ForEachCreationNode(GOOGLE_SHEETS_SCOPE_SCENARIO_ID, gn, ge, contextNodes,
                      SelectSeq(contextNodes, isGoogleSheetsCreationNode))

\* ----------------------------------------- SlackUserValidationScenario
MaxSlackNodes == 3
MaxSlackEdges == 3

ALLOWED_EXTERNAL_CONNECTION_NODES == <<NODE_TYPES.SLACK, NODE_TYPES.SLACK_TRIGGER>>

SLACK_USER_VALIDATION_DETECTION_CODES ==
  [VALIDATION_NODE_MISSING |-> "SLACK_VALIDATION_NO_VALIDATION_NODE",
   JSCODE_VALIDATION_INCOMPLETE |-> "SLACK_JSCODE_VALIDATION_INCOMPLETE",
   JSCODE_VALIDATION_IMPLEMENTED |-> "SLACK_JSCODE_VALIDATION_IMPLEMENTED",
   IF_VALIDATION_INCOMPLETE |-> "SLACK_IF_VALIDATION_INCOMPLETE",
   IF_VALIDATION_IMPLEMENTED |-> "SLACK_IF_VALIDATION_IMPLEMENTED",
   INVALID_EXTERNAL_CONNECTIONS |-> "SLACK_VALIDATION_INVALID_EXTERNAL_CONNECTIONS"]

SlackKind(type, content) ==
  [type |-> type, parameters |-> [NoParameters EXCEPT !.content = content]]

\* the kinds of node that follow the trigger in the larger workflows of the
\* Slack scenario: a Code node and an If node that validate the user, a node
\* with a connection to the outside that is not allowed on the way, and one
\* that is
SlackRoles ==
  {SlackKind(NODE_TYPES.CODE, "validates"), SlackKind(NODE_TYPES.IF_NODE, "validates"),
   SlackKind(NODE_TYPES.HTTP_REQUEST, ""), SlackKind(NODE_TYPES.SLACK, "")}

\* the kinds of node of the smaller ones
SlackKinds ==
  SlackRoles \cup
  {SlackKind(NODE_TYPES.SLACK_TRIGGER, ""), SlackKind(NODE_TYPES.CODE, "partial"),
   SlackKind(NODE_TYPES.CODE, ""), SlackKind(NODE_TYPES.IF_NODE, "")}

\* a trigger, then maxNodes - 1 nodes of SlackRoles
TriggeredWorkflows(maxNodes, maxEdges) ==
  {ScenarioWorkflow(<<SlackKind(NODE_TYPES.SLACK_TRIGGER, "")>> \o ks, E) :
     ks \in [1..(maxNodes - 1) -> SlackRoles], E \in ScenarioEdgeSets(maxNodes, maxEdges)}

\* a trigger, two nodes that follow it, and a Code node that follows both and
\* validates the user: the first branch goes through an HTTP Request node and
\* the second through a Slack node, or the other way round
TwoBranches(first, second) ==
  ScenarioWorkflow(<<SlackKind(NODE_TYPES.SLACK_TRIGGER, ""), SlackKind(first, ""),
                     SlackKind(second, ""), SlackKind(NODE_TYPES.CODE, "validates")>>,
                   {<<1, 2>>, <<1, 3>>, <<2, 4>>, <<3, 4>>})

SlackWorkflows(maxNodes, maxEdges) ==
  UNION {ScenarioWorkflowsOf(SlackKinds, n, maxEdges) : n \in 0..(maxNodes - 1)}
  \cup TriggeredWorkflows(maxNodes, maxEdges)
  \cup {TwoBranches(NODE_TYPES.HTTP_REQUEST, NODE_TYPES.SLACK),
        TwoBranches(NODE_TYPES.SLACK, NODE_TYPES.HTTP_REQUEST)}

\* JSCodeUserValidator.analyzeCodeNode, by what the code of the node amounts
\* to: the four elements of a validation all there, two of them, or none
analyzeCodeNode(codeNode) ==
  [hasValidation |-> codeNode.parameters.content = "validates",
   partialConfigCount |-> IF codeNode.parameters.content = "validates" THEN 4
                          ELSE IF codeNode.parameters.content = "partial" THEN 2
                          ELSE 0]

\* IfNodeUserValidator.analyzeIfNode, by what the conditions amount to
analyzeIfNode(ifNode) == [isValid |-> ifNode.parameters.content = "validates"]

hasExternalConnection(nodeType) ==
  LET found == SelectSeq(SECURITY_CONFIG.reviewRequiredNodes, LAMBDA n : n.type = nodeType)
  IN IF found = <<>> THEN FALSE ELSE found[1].externalConnection

isAllowedExternalNode(nodeType) == Contains(ALLOWED_EXTERNAL_CONNECTION_NODES, nodeType)

\* Variant of the operator below that accepts every path.
isPathValid_Always(pathNodes) == TRUE

isPathValid(pathNodes) ==
  \A i \in DOMAIN pathNodes :
     ~(hasExternalConnection(pathNodes[i].type) /\ ~isAllowedExternalNode(pathNodes[i].type))

getExternalNodesInPath(pathNodes) ==
  SelectSeq(pathNodes,
            LAMBDA node : hasExternalConnection(node.type) /\ ~isAllowedExternalNode(node.type))

convertIdsToNodes(contextNodes, nodeIds) ==
  LET found == [i \in DOMAIN nodeIds |-> ScenarioGetNodeById(contextNodes, nodeIds[i])]
      kept == SelectSeq(found, LAMBDA r : r.found)
  IN [i \in DOMAIN kept |-> kept[i].node]

getAllDownstreamNodes(gn, ge, contextNodes, nodeId) ==
  convertIdsToNodes(contextNodes, getAllSubsequentNodes(gn, ge, nodeId))

NoItem == [found |-> FALSE]

SomeItem(item) == [found |-> TRUE, item |-> item]

RECURSIVE CheckValidationNodes(_, _, _, _, _)
\* the two first-level loops of findValidationInWorkflow: over the Code nodes
\* (nodeType = NODE_TYPES.CODE) and over the If nodes
CheckValidationNodes(checkerId, g, slackTrigger, validationNodes, nodeType) ==
  IF validationNodes = <<>> THEN NoItem
  ELSE LET validationNode == Head(validationNodes)
           hasValidation ==
             IF nodeType = NODE_TYPES.CODE
             THEN analyzeCodeNode(validationNode).hasValidation
             ELSE analyzeIfNode(validationNode).isValid
           implemented ==
             IF nodeType = NODE_TYPES.CODE
             THEN SLACK_USER_VALIDATION_DETECTION_CODES.JSCODE_VALIDATION_IMPLEMENTED
             ELSE SLACK_USER_VALIDATION_DETECTION_CODES.IF_VALIDATION_IMPLEMENTED
           pathToNode == getPathFromNodeToNode(g.gn, g.gattr, g.ge, slackTrigger.id,
                                               validationNode.id)
           pathValid == isPathValid(pathToNode)
       IN IF ~hasValidation
          THEN CheckValidationNodes(checkerId, g, slackTrigger, Tail(validationNodes),
                                    nodeType)
          ELSE IF pathValid
               THEN SomeItem(ScenarioDetectionItem(checkerId, implemented, "none",
                                                   slackTrigger, <<validationNode>>))
               ELSE SomeItem(ScenarioDetectionItem(
                               checkerId,
                               SLACK_USER_VALIDATION_DETECTION_CODES.INVALID_EXTERNAL_CONNECTIONS,
                               "error", slackTrigger,
                               <<validationNode>> \o getExternalNodesInPath(pathToNode)))

findValidationInWorkflow(checkerId, g, contextNodes, slackTriggerId) ==
  LET allDownstreamNodes == getAllDownstreamNodes(g.gn, g.ge, contextNodes, slackTriggerId)
      codeNodes == SelectSeq(allDownstreamNodes, LAMBDA node : node.type = NODE_TYPES.CODE)
      ifNodes == SelectSeq(allDownstreamNodes, LAMBDA node : node.type = NODE_TYPES.IF_NODE)
      slackTrigger == ScenarioGetNodeById(contextNodes, slackTriggerId)
      fromCode == CheckValidationNodes(checkerId, g, slackTrigger.node, codeNodes,
                                       NODE_TYPES.CODE)
      fromIf == CheckValidationNodes(checkerId, g, slackTrigger.node, ifNodes,
                                     NODE_TYPES.IF_NODE)
  IN IF ~slackTrigger.found THEN NoItem
     ELSE IF fromCode.found THEN fromCode
     ELSE IF fromIf.found THEN fromIf
     ELSE IF codeNodes # <<>> /\ analyzeCodeNode(codeNodes[1]).partialConfigCount >= 2
          THEN SomeItem(ScenarioDetectionItem(
                          checkerId,
                          SLACK_USER_VALIDATION_DETECTION_CODES.JSCODE_VALIDATION_INCOMPLETE,
                          "error", slackTrigger.node, <<codeNodes[1]>>))
          ELSE SomeItem(ScenarioDetectionItem(
                          checkerId,
                          SLACK_USER_VALIDATION_DETECTION_CODES.IF_VALIDATION_INCOMPLETE,
                          "error", slackTrigger.node, <<>>))

checkTriggerValidation(checkerId, g, contextNodes, slackTriggerId) ==
  LET slackTrigger == ScenarioGetNodeById(contextNodes, slackTriggerId)
      detectionItem == findValidationInWorkflow(checkerId, g, contextNodes, slackTriggerId)
  IN IF ~slackTrigger.found THEN <<>>
     ELSE IF ~detectionItem.found
          THEN <<ScenarioDetectionItem(
                   checkerId, SLACK_USER_VALIDATION_DETECTION_CODES.VALIDATION_NODE_MISSING,
                   "error", slackTrigger.node, <<>>)>>
          ELSE <<detectionItem.item>>

RECURSIVE ForEachSlackTrigger(_, _, _, _)
ForEachSlackTrigger(checkerId, g, contextNodes, slackTriggers) ==
  IF slackTriggers = <<>> THEN <<>>
  ELSE checkTriggerValidation(checkerId, g, contextNodes, Head(slackTriggers).id)
       \o ForEachSlackTrigger(checkerId, g, contextNodes, Tail(slackTriggers))

SlackUserValidationCheckScenario(g, contextNodes) ==
  ForEachSlackTrigger(SLACK_USER_VALIDATION_SCENARIO_ID, g, contextNodes,
                      SelectSeq(contextNodes,
                                LAMBDA node : node.type = NODE_TYPES.SLACK_TRIGGER))

\* ---------------------------------------------- scenario checkers: runs
\* the state after createCheckerContext(workflow) and the checkers'
\* constructors
InitScenario(workflows) ==
  /\ workflow \in workflows
  /\ nodeClassifier = NodeClassifier(SECURITY_CONFIG)
  /\ pc = "context"
  /\ graph = [gn |-> BuildGraph(workflow).gn, gattr |-> BuildGraph(workflow).gattr,
              ge |-> BuildGraph(workflow).ge]
  /\ sccs = findSCCs(graph.gn, graph.ge)
  /\ condensedDAG = createCondensedDAG(sccs, graph.ge)
  /\ error = ErrNone
  /\ answer = NoAnswer
  /\ nodeIdx = 1
  /\ scenIdx = 1
  /\ checkResults = <<>>
  /\ origin = <<>>
  /\ checkerCategories = <<>>
  /\ calls = <<>>
  /\ logged = <<>>
  /\ aggregatedCategories = EmptyCategories
  /\ traversal = NoTraversal

ScenarioCall(op, checkerId, value) ==
  /\ pc = "context"
  /\ pc' = "checked"
  /\ answer' = [op |-> op, args |-> <<checkerId>>, value |-> value]
  /\ UNCHANGED <<workflow, traversal, nodeClassifier, gvars, error>>
  /\ UNCHANGED avars

GoogleSheetsScopeIsApplicable ==
  ScenarioCall("isApplicable", GOOGLE_SHEETS_SCOPE_SCENARIO_ID,
               ScenarioIsApplicable(ScenarioChecker(GOOGLE_SHEETS_SCOPE_SCENARIO_ID),
                                    ContextNodes(workflow)))

GoogleSheetsScopeCheck ==
  ScenarioCall("checkScenario", GOOGLE_SHEETS_SCOPE_SCENARIO_ID,
               GoogleSheetsScopeCheckScenario(graph.gn, graph.ge, ContextNodes(workflow)))

InitSheetsScope == InitScenario(ScopeWorkflows(MaxScopeNodes, MaxScopeEdges))

NextSheetsScope ==
  \/ GoogleSheetsScopeIsApplicable
  \/ GoogleSheetsScopeCheck

SpecSheetsScope == InitSheetsScope /\ [][NextSheetsScope]_vars

SlackUserValidationIsApplicable ==
  ScenarioCall("isApplicable", SLACK_USER_VALIDATION_SCENARIO_ID,
               ScenarioIsApplicable(ScenarioChecker(SLACK_USER_VALIDATION_SCENARIO_ID),
                                    ContextNodes(workflow)))

SlackUserValidationCheck ==
  ScenarioCall("checkScenario", SLACK_USER_VALIDATION_SCENARIO_ID,
               SlackUserValidationCheckScenario(graph, ContextNodes(workflow)))

InitSlackValidation == InitScenario(SlackWorkflows(MaxSlackNodes, MaxSlackEdges))

NextSlackValidation ==
  \/ SlackUserValidationIsApplicable
  \/ SlackUserValidationCheck

SpecSlackValidation == InitSlackValidation /\ [][NextSlackValidation]_vars

\* ------------------------------- NodeClassifier, several calls in a row
MaxCalls == 3

\* the type strings asked about when one classifier is called repeatedly
SessionTypes ==
  {NODE_TYPES.SET, NODE_TYPES.SLACK, NODE_TYPES.SLACK_TRIGGER, NODE_TYPES.SLACK_TOOL,
   UnlistedType, <<Base, ".", "(", "slack">>}

InitSession ==
  /\ \E config \in ClassifierConfigs : nodeClassifier = NodeClassifier(config)
  /\ workflow = [nodes |-> <<>>, connections |-> <<>>]
  /\ pc = "session"
  /\ graph = NoGraph
  /\ sccs = <<>>
  /\ condensedDAG = NoDAG
  /\ error = ErrNone
  /\ answer = NoAnswer
  /\ nodeIdx = 1
  /\ scenIdx = 1
  /\ checkResults = <<>>
  /\ origin = <<>>
  /\ checkerCategories = <<>>
  /\ calls = <<>>
  /\ logged = <<>>
  /\ aggregatedCategories = EmptyCategories
  /\ traversal = NoTraversal

\* Variant of the operator below in which the classifier keeps every type it
\* was asked about in its safe set.
SessionCall_Remembering(op, nodeType, value) ==
  /\ pc = "session"
  /\ Len(calls) < MaxCalls
  /\ answer' = [op |-> op, args |-> <<nodeType>>, value |-> value]
  /\ calls' = Append(calls, [method |-> op, nodeType |-> nodeType, outcome |-> value])
  /\ nodeClassifier' = [nodeClassifier EXCEPT !.safeNodesSet = @ \cup {nodeType}]
  /\ UNCHANGED <<workflow, traversal, pc, gvars, error, nodeIdx, scenIdx, checkResults,
                 origin, checkerCategories, logged, aggregatedCategories>>

\* one more call of a method of the same NodeClassifier object
SessionCall(op, nodeType, value) ==
  /\ pc = "session"
  /\ Len(calls) < MaxCalls
  /\ answer' = [op |-> op, args |-> <<nodeType>>, value |-> value]
  /\ calls' = Append(calls, [method |-> op, nodeType |-> nodeType, outcome |-> value])
  /\ UNCHANGED <<workflow, traversal, nodeClassifier, pc, gvars, error, nodeIdx, scenIdx, checkResults,
                 origin, checkerCategories, logged, aggregatedCategories>>

ClassifyAgain ==
  \E nodeType \in SessionTypes :
     SessionCall("classify", nodeType, classify(nodeClassifier, nodeType))

GetReviewRequiredNodeInfoAgain ==
  \E nodeType \in SessionTypes :
     SessionCall("getReviewRequiredNodeInfo", nodeType,
                 getReviewRequiredNodeInfo(nodeClassifier, nodeType))

NextSession ==
  \/ ClassifyAgain
  \/ GetReviewRequiredNodeInfoAgain

SpecSession == InitSession /\ [][NextSession]_vars

\* ================================================================== claims
\* Reference notions used to state the claims, independent of the searches
\* above: walks of an exact length over the built graph.
GraphIds == Range(graph.gn)

RECURSIVE WalkExists(_, _, _, _)
\* a walk of exactly k edges leads from a to b
WalkExists(edges, a, b, k) ==
  IF k = 0 THEN a = b
  ELSE \E e \in Range(edges) : e[1] = a /\ WalkExists(edges, e[2], b, k - 1)

\* b can be reached from a along one or more edges
Reaches(edges, n, a, b) == \E k \in 1..n : WalkExists(edges, a, b, k)

SameSCC(edges, n, u, v) ==
  u = v \/ (Reaches(edges, n, u, v) /\ Reaches(edges, n, v, u))

HopDistance(edges, n, a, b) ==
  CHOOSE k \in 1..n : WalkExists(edges, a, b, k)
                      /\ \A j \in 1..(k - 1) : ~WalkExists(edges, a, b, j)

IsPartition(components, ids) ==
  /\ \A i \in DOMAIN components : components[i].nodes # <<>>
  /\ \A i \in DOMAIN components : Range(components[i].nodes) \subseteq ids
  /\ \A x \in ids :
        Cardinality({<<i, k>> \in (DOMAIN components) \X (1..Cardinality(ids)) :
                       k \in DOMAIN components[i].nodes
                       /\ components[i].nodes[k] = x}) = 1

\* C1: the node lists of the components getSCCs() returns partition the
\* graph's node ids exactly: each id is in one component, once, no component
\* is empty and no foreign id occurs.
C1_SCCsPartitionNodes ==
  /\ pc = "built" => IsPartition(sccs, GraphIds)
  /\ answer.op = "getSCCs" => IsPartition(answer.value, GraphIds)

C1_Witness ==
  /\ answer.op = "getSCCs"
  /\ Len(graph.gn) = 3
  /\ Len(answer.value) = 2
  /\ \E i \in DOMAIN answer.value : Len(answer.value[i].nodes) = 2

\* C2: the condensed graph has no directed cycle, also for cyclic workflows
\* and self-loops, so getTopologicalOrder() never raises its error.
C2_CondensedAcyclic ==
  /\ pc = "built" =>
       \A i \in DOMAIN condensedDAG.cn :
          ~Reaches(condensedDAG.ce, Len(condensedDAG.cn),
                   condensedDAG.cn[i], condensedDAG.cn[i])
  /\ answer.op = "getTopologicalOrder" => answer.value.err = ErrNone

C2_Witness ==
  /\ answer.op = "getTopologicalOrder"
  /\ answer.value.err = ErrNone
  /\ Len(answer.value.order) = 2
  /\ hasDirectedEdge(graph.ge, "a", "a")
  /\ \E x \in GraphIds, y \in GraphIds :
        x # y /\ hasDirectedEdge(graph.ge, x, y) /\ hasDirectedEdge(graph.ge, y, x)

GroupsOf(order, x) == {i \in DOMAIN order : x \in Range(order[i])}

\* C3: in the list getExecutionOrder() returns, for every edge u->v whose
\* endpoints lie in different SCCs the group holding u comes strictly before
\* the group holding v.
C3_ExecutionOrderRespectsEdges ==
  answer.op = "getExecutionOrder" =>
    /\ answer.value.err = ErrNone
    /\ \A e \in Range(graph.ge) :
          ~SameSCC(graph.ge, Len(graph.gn), e[1], e[2]) =>
             /\ GroupsOf(answer.value.order, e[1]) # {}
             /\ GroupsOf(answer.value.order, e[2]) # {}
             /\ \A i \in GroupsOf(answer.value.order, e[1]) :
                   \A j \in GroupsOf(answer.value.order, e[2]) : i < j

C3_Witness ==
  /\ answer.op = "getExecutionOrder"
  /\ Len(answer.value.order) = 2
  /\ \E e \in Range(graph.ge) : ~SameSCC(graph.ge, Len(graph.gn), e[1], e[2])
  /\ \E i \in DOMAIN answer.value.order : Len(answer.value.order[i]) = 2

PathIds(path) == [i \in DOMAIN path |-> path[i].id]

\* C4: for nodes a # b with b reachable from a, getPathFromNodeToNode(a, b)
\* starts at a, ends at b, follows an edge at every step and has the least
\* number of hops of all directed paths from a to b.
C4_PathIsShortest ==
  (/\ answer.op = "getPathFromNodeToNode"
   /\ answer.args[1] \in GraphIds /\ answer.args[2] \in GraphIds
   /\ answer.args[1] # answer.args[2]
   /\ Reaches(graph.ge, Len(graph.gn), answer.args[1], answer.args[2]))
  => LET p == PathIds(answer.value) IN
     /\ Len(p) >= 2
     /\ p[1] = answer.args[1]
     /\ p[Len(p)] = answer.args[2]
     /\ \A i \in 1..(Len(p) - 1) : hasDirectedEdge(graph.ge, p[i], p[i + 1])
     /\ Len(p) - 1 = HopDistance(graph.ge, Len(graph.gn),
                                 answer.args[1], answer.args[2])

\* a two-hop answer in a graph that also holds a longer a-to-c route met
\* first in neighbour order
C4_Witness ==
  /\ answer.op = "getPathFromNodeToNode"
  /\ answer.args = <<"a", "c">>
  /\ Len(answer.value) = 2
  /\ graph.ge = << <<"a", "b">>, <<"a", "c">>, <<"b", "c">> >>

\* C5: getPathFromNodeToNode(a, a) is the one-element path [a] for every
\* graph node a, and getPathFromNodeToNode(a, b) is empty whenever b is not
\* reachable from a.
C5_PathTrivialCases ==
  answer.op = "getPathFromNodeToNode" =>
    /\ (answer.args[1] \in GraphIds /\ answer.args[1] = answer.args[2])
          => PathIds(answer.value) = <<answer.args[1]>>
    /\ (/\ answer.args[1] # answer.args[2]
        /\ ~(/\ answer.args[1] \in GraphIds
             /\ answer.args[2] \in GraphIds
             /\ Reaches(graph.ge, Len(graph.gn), answer.args[1], answer.args[2])))
          => answer.value = <<>>

C5_WitnessSame ==
  /\ answer.op = "getPathFromNodeToNode"
  /\ answer.args = <<"b", "b">>
  /\ PathIds(answer.value) = <<"b">>
  /\ ~hasDirectedEdge(graph.ge, "b", "b")

C5_Witness ==
  /\ answer.op = "getPathFromNodeToNode"
  /\ answer.args = <<"c", "a">>
  /\ answer.value = <<>>
  /\ graph.ge = << <<"a", "b">>, <<"b", "c">> >>

\* ---------------------------------------------------------------- analyze
NodeCount == Len(workflow.nodes)

\* the scenario modules, in the order createCheckers registers them
RegisteredScenarios == SelectSeq(createCheckers, LAMBDA c : c.type = "scenario")

ScenarioIds == {RegisteredScenarios[i].id : i \in DOMAIN RegisteredScenarios}

NodeCheckerIds == {c.id : c \in {d \in Range(createCheckers) : d.type = "node"}}

\* the scenario modules whose isApplicable(context) is true
ApplicableScenarios ==
  SelectSeq(RegisteredScenarios, LAMBDA c : ScenarioIsApplicable(c, ContextNodes(workflow)))

\* check() of the module has thrown
CheckThrew(checkerId) ==
  \E k \in DOMAIN calls :
     /\ calls[k].method = "check"
     /\ calls[k].checkerId = checkerId
     /\ calls[k].outcome = "threw"

\* this step has called check() of a module, and it threw
CheckThrowsNow ==
  \E k \in (DOMAIN calls') \ (DOMAIN calls) :
     calls'[k].method = "check" /\ calls'[k].outcome = "threw"

\* entry i of the result list is a node-scoped result made for input node i
NodeScopedFor(i) ==
  /\ i <= Len(checkResults)
  /\ origin[i] = [kind |-> "node", id |-> workflow.nodes[i].id]
  /\ checkResults[i].checkerId \notin ScenarioIds
  /\ \A k \in DOMAIN checkResults[i].detectionItems :
        checkResults[i].detectionItems[k].nodeId = workflow.nodes[i].id

\* the result list is one node-scoped result per node, in input order, and
\* then one result of each module of `expected`, in that order
ResultListIs(expected) ==
  /\ Len(checkResults) = NodeCount + Len(expected)
  /\ \A i \in 1..NodeCount : NodeScopedFor(i)
  /\ \A j \in DOMAIN expected :
        /\ checkResults[NodeCount + j].checkerId = expected[j].id
        /\ origin[NodeCount + j] = [kind |-> "scenario", id |-> expected[j].id]

\* C6 as stated: the list analyze returns holds the N node-scoped results in
\* input order, then exactly one result for each scenario module whose
\* isApplicable(context) is true, in registration order.
C6_OneResultPerApplicableScenario ==
  pc = "returned" => ResultListIs(ApplicableScenarios)

\* C6, amended: the list analyze returns holds the N node-scoped results in
\* input order, then exactly one result for each scenario module whose
\* isApplicable(context) is true and whose check() returned, in registration
\* order (an applicable module whose check() throws contributes none).
C6_ResultListShape ==
  pc = "returned" =>
     ResultListIs(SelectSeq(ApplicableScenarios, LAMBDA c : ~CheckThrew(c.id)))

\* three nodes, both scenario modules applicable, one result of each
C6_Witness ==
  /\ pc = "returned"
  /\ NodeCount = 3
  /\ Len(ApplicableScenarios) = 2
  /\ Len(checkResults) = 5
  /\ checkResults[4].checkerId = SLACK_USER_VALIDATION_SCENARIO_ID
  /\ checkResults[5].checkerId = GOOGLE_SHEETS_SCOPE_SCENARIO_ID

IsFallbackFor(result, node) ==
  /\ Len(result.detectionItems) = 1
  /\ result.detectionItems[1].detectionCode = "UNIMPLEMENTED_NODE_REVIEW_REQUIRED"
  /\ result.detectionItems[1].severity = "warning"
  /\ result.detectionItems[1].nodeId = node.id

\* a step of the node loop in which a node checker's check(node) threw
NodeCheckThrew == pc = "running" /\ nodeIdx <= NodeCount /\ CheckThrowsNow

\* C7: when a node checker throws during check(node), analyze is not aborted,
\* the node gets exactly one result, which holds the single warning finding
\* UNIMPLEMENTED_NODE_REVIEW_REQUIRED, the loop goes on with the next node, and
\* a run that returns has a result for every node.
C7_NodeCheckThrowFallsBack ==
  /\ [][NodeCheckThrew =>
          /\ pc' = "running"
          /\ nodeIdx' = nodeIdx + 1
          /\ Len(checkResults') = Len(checkResults) + 1
          /\ SubSeq(checkResults', 1, Len(checkResults)) = checkResults
          /\ IsFallbackFor(checkResults'[Len(checkResults')], workflow.nodes[nodeIdx])]_vars
  /\ []((pc = "returned" /\ \E id \in NodeCheckerIds : CheckThrew(id)) =>
          \A i \in 1..NodeCount : NodeScopedFor(i))

\* the Slack checker threw on the first node, the run returned, and the
\* second node has its result
C7_Witness ==
  /\ pc = "returned"
  /\ NodeCount >= 2
  /\ workflow.nodes[1].type = NODE_TYPES.SLACK
  /\ CheckThrew(SLACK_CHECKER_ID)
  /\ Contains(logged, SLACK_CHECKER_ID)
  /\ IsFallbackFor(checkResults[1], workflow.nodes[1])
  /\ NodeScopedFor(2)

\* a step of the scenario loop in which a scenario checker's check() threw
ScenarioCheckThrew == pc = "running" /\ nodeIdx > NodeCount /\ CheckThrowsNow

WasAsked(checkerId) ==
  \E k \in DOMAIN calls :
     calls[k].method = "isApplicable" /\ calls[k].checkerId = checkerId

\* C8: when a scenario checker throws while it is run, it adds no result, the
\* run is not aborted, the results collected so far are kept, the loop goes on
\* with the next scenario checker, and a run that returns has asked every
\* scenario checker and holds no result of one that threw.
C8_ScenarioCheckThrowSkipped ==
  /\ [][ScenarioCheckThrew =>
          /\ pc' = "running"
          /\ checkResults' = checkResults
          /\ scenIdx' = scenIdx + 1]_vars
  /\ [](pc = "returned" =>
          /\ \A id \in ScenarioIds : WasAsked(id)
          /\ \A id \in ScenarioIds :
                CheckThrew(id) =>
                   \A i \in DOMAIN checkResults : checkResults[i].checkerId # id
          /\ \A i \in 1..NodeCount : NodeScopedFor(i))

\* the first scenario checker threw, the node results are there, and the
\* second scenario checker has added its result
C8_Witness ==
  /\ pc = "returned"
  /\ NodeCount >= 2
  /\ CheckThrew(SLACK_USER_VALIDATION_SCENARIO_ID)
  /\ Contains(logged, SLACK_USER_VALIDATION_SCENARIO_ID)
  /\ Len(checkResults) = NodeCount + 1
  /\ checkResults[NodeCount + 1].checkerId = GOOGLE_SHEETS_SCOPE_SCENARIO_ID

\* C9: a module that throws during isApplicable(context) does not make
\* analyze fail: no run of analyze ends with the module's exception.
C9_IsApplicableThrowRecovered == ~(pc = "aborted" /\ error = ErrModuleThrew)

\* the source keys and the non-empty target references of a workflow
SourceKeys(w) == {w.connections[i].key : i \in DOMAIN w.connections}

TargetRefs(w) ==
  UNION {UNION {Range(w.connections[i].main[p].conns) \ {""} :
                  p \in DOMAIN w.connections[i].main} :
           i \in DOMAIN w.connections}

NodeIdsAndNames(w) ==
  {w.nodes[i].id : i \in DOMAIN w.nodes} \cup {w.nodes[i].name : i \in DOMAIN w.nodes}

HasUnresolvableRef(w) ==
  (SourceKeys(w) \cup TargetRefs(w)) \ NodeIdsAndNames(w) # {}

\* C10: construction fails with 'Node not found' whenever a source key or a
\* target reference matches neither a node id nor a node name; an empty node
\* list without connections gives a valid empty graph: no SCCs, empty
\* topological and execution order, no error.
C10_UnresolvedFailsNodeNotFound ==
  /\ (pc # "new" /\ HasUnresolvableRef(workflow))
        => (pc = "failed" /\ error = ErrNodeNotFound)
  /\ (pc # "new" /\ workflow.nodes = <<>> /\ workflow.connections = <<>>)
        => /\ pc = "built"
           /\ error = ErrNone
           /\ sccs = <<>>
           /\ answer.op \in {"getTopologicalOrder", "getExecutionOrder"}
                 => answer.value = [err |-> ErrNone, order |-> <<>>]

\* what the code does keep of C10: an unresolvable reference always makes the
\* construction fail, with 'Node not found' or with the error of a duplicate
\* edge met earlier
C10_UnresolvedFails ==
  (pc # "new" /\ HasUnresolvableRef(workflow))
     => (pc = "failed" /\ error \in {ErrNodeNotFound, ErrEdgeExists})

\* the references getActualNodeId resolves: the ids and names of the nodes
\* that have an id
ResolvableRefs(w) ==
  {w.nodes[i].id : i \in {j \in DOMAIN w.nodes : w.nodes[j].id # ""}}
  \cup {w.nodes[i].name : i \in {j \in DOMAIN w.nodes : w.nodes[j].id # ""}}

AllEndpointsResolve(w) == (SourceKeys(w) \cup TargetRefs(w)) \subseteq ResolvableRefs(w)

RECURSIVE SumOver(_, _)
SumOver(f, n) == IF n = 0 THEN 0 ELSE f[n] + SumOver(f, n - 1)

\* the number of connections of a workflow: the targets its ports list
ConnectionCount(w) ==
  SumOver([i \in DOMAIN w.connections |->
             SumOver([p \in DOMAIN w.connections[i].main |->
                        Cardinality({k \in DOMAIN w.connections[i].main[p].conns :
                                        w.connections[i].main[p].conns[k] # ""})],
                     Len(w.connections[i].main))],
          Len(w.connections))

\* C11: the construction succeeds for every workflow whose connection
\* endpoints all resolve, also when several connections join the same source
\* to the same target, and the graph keeps one edge per connection.
C11_ResolvableBuildsMultiset ==
  (pc # "new" /\ AllEndpointsResolve(workflow))
     => (pc = "built" /\ Len(graph.ge) = ConnectionCount(workflow))

\* ------------------------------------------------------------ classifier
\* the type the last classifier call asked about
AskedType == answer.args[1]

\* the review table of the classifier, in declaration order
ReviewTable == nodeClassifier.reviewRequiredMap

\* C12: classify returns 'safe' for every type of the safe list, also when
\* the review table matches it; for any other type 'review_required' exactly
\* when getReviewRequiredNodeInfo is not null, and 'unknown' otherwise.
C12_ClassifySafeFirst ==
  answer.op = "classify" =>
     answer.value =
        IF AskedType \in nodeClassifier.safeNodesSet THEN "safe"
        ELSE IF getReviewRequiredNodeInfo(nodeClassifier, AskedType).found
             THEN "review_required"
             ELSE "unknown"

\* a type of the safe list that the review table matches too was classified
C12_Witness ==
  /\ answer.op = "classify"
  /\ AskedType = NODE_TYPES.SLACK_TOOL
  /\ AskedType \in nodeClassifier.safeNodesSet
  /\ getReviewRequiredNodeInfo(nodeClassifier, AskedType).found
  /\ answer.value = "safe"

\* entry i of the review table matches the type as a pattern; an entry that
\* is no valid pattern matches by equality only
MatchesAsPattern(i, nodeType) ==
  IF IsValidRegex(ReviewTable[i][1])
  THEN RegexTest(ReviewTable[i][1], nodeType)
  ELSE ReviewTable[i][1] = nodeType

MatchesLiterally(i, nodeType) == ReviewTable[i][1] = nodeType

\* the entry at the least index of I, or null when I is empty
EarliestOf(I) ==
  IF I = {} THEN NullInfo
  ELSE FoundInfo(ReviewTable[CHOOSE i \in I : \A j \in I : i <= j][2])

PatternPieces == {".*", "^", "$", "\\."}

\* entry i is written as a pattern
DeclaredAsPattern(i) == \E k \in DOMAIN ReviewTable[i][1] : ReviewTable[i][1][k] \in PatternPieces

\* C14: a table entry that is a plain type identifier matches only the type
\* equal to it: a type that equals no entry of the safe list and no entry of
\* the review table, and that no entry written as a pattern matches, is
\* classified 'unknown'.
C14_LiteralEntriesMatchExactly ==
  (/\ answer.op = "classify"
   /\ AskedType \notin nodeClassifier.safeNodesSet
   /\ \A i \in DOMAIN ReviewTable : ~MatchesLiterally(i, AskedType)
   /\ \A i \in DOMAIN ReviewTable : DeclaredAsPattern(i) => ~MatchesAsPattern(i, AskedType))
     => answer.value = "unknown"

\* the entries of the review table that are no valid regular expression
InvalidEntries == {i \in DOMAIN ReviewTable : ~IsValidRegex(ReviewTable[i][1])}

\* C15: with entries in the table that are no valid regular expression,
\* getReviewRequiredNodeInfo raises no error whatever the type; such an entry
\* is returned only for the type equal to it, and the entries after it are
\* still tried: when no entry equals the type, the earliest valid entry that
\* matches it is returned.
C15_InvalidPatternIsLiteral ==
  (answer.op = "getReviewRequiredNodeInfo" /\ InvalidEntries # {}) =>
     /\ ~answer.value.threw
     /\ \A i \in InvalidEntries :
           answer.value = FoundInfo(ReviewTable[i][2]) => ReviewTable[i][1] = AskedType
     /\ (\A i \in DOMAIN ReviewTable : ~MatchesLiterally(i, AskedType)) =>
           answer.value =
              EarliestOf({i \in (DOMAIN ReviewTable) \ InvalidEntries :
                            RegexTest(ReviewTable[i][1], AskedType)})

\* the first entry is no valid regular expression and differs from the type,
\* and the second entry, which matches, was returned
C15_Witness ==
  /\ answer.op = "getReviewRequiredNodeInfo"
  /\ 1 \in InvalidEntries
  /\ AskedType = NODE_TYPES.SLACK_TOOL
  /\ ~answer.value.threw
  /\ answer.value = FoundInfo(ReviewTable[2][2])

\* ------------------------------------------------- analyze, node by node
\* the nodes the node loop has dealt with
ProcessedNodes == {i \in DOMAIN workflow.nodes : i < nodeIdx /\ i <= Len(checkResults)}

ClassOf(i) == classify(nodeClassifier, workflow.nodes[i].type)

\* the calls of module methods made for node i
CallsFor(i) == SelectSeq(calls, LAMBDA c : c.nodeId = workflow.nodes[i].id)

ReviewInfoOf(i) == getReviewRequiredNodeInfo(nodeClassifier, workflow.nodes[i].type)

\* C17: a review_required node whose table entry has no rule module gets
\* exactly one result with exactly one finding, a warning with the code
\* UNIMPLEMENTED_NODE_REVIEW_REQUIRED, and the nodeCategories of that result
\* list the node (by its type) under 'others' and nothing under the other
\* categories.
C17_NoModuleGivesFallback ==
  \A i \in ProcessedNodes :
     (ClassOf(i) = "review_required" /\ ~ReviewInfoOf(i).info.hasChecker) =>
        /\ origin[i] = [kind |-> "node", id |-> workflow.nodes[i].id]
        /\ IsFallbackFor(checkResults[i], workflow.nodes[i])
        /\ checkResults[i].nodeCategories.kind = "own"
        /\ checkResults[i].nodeCategories.value =
              [triggers |-> <<>>, dataSources |-> <<>>, outputs |-> <<>>,
               others |-> <<workflow.nodes[i].type>>]

\* a Slack Trigger node, whose entry has no rule module, was analysed
C17_Witness ==
  /\ pc = "returned"
  /\ NodeCount >= 1
  /\ workflow.nodes[1].type = NODE_TYPES.SLACK_TRIGGER
  /\ ~ReviewInfoOf(1).info.hasChecker
  /\ IsFallbackFor(checkResults[1], workflow.nodes[1])
  /\ checkResults[1].nodeCategories.value.others = <<NODE_TYPES.SLACK_TRIGGER>>

\* what check(node) of a node checker can return
PossibleReturns(checkerId, node) ==
  {NodeCheckerCheck(c, node, b) :
     c \in {d \in Range(createCheckers) : d.id = checkerId}, b \in {"pass", "detect"}}

ReturnedChecks(cs) == {k \in DOMAIN cs : cs[k].method = "check" /\ cs[k].outcome = "returned"}

\* C18: when check(node) of the first applicable node checker returns, the
\* node's entry of the result list is the CheckResult that checker returned,
\* as returned, no module is called for the node after that, and no entry of
\* the list is changed afterwards.
C18_ResultForwardedUnchanged ==
  /\ [](\A i \in ProcessedNodes :
           LET cs == CallsFor(i) IN
           ReturnedChecks(cs) # {} =>
              /\ ReturnedChecks(cs) = {Len(cs)}
              /\ origin[i] = [kind |-> "node", id |-> workflow.nodes[i].id]
              /\ checkResults[i] \in PossibleReturns(cs[Len(cs)].checkerId, workflow.nodes[i]))
  /\ [][\A i \in DOMAIN checkResults :
           i <= Len(checkResults') /\ checkResults'[i] = checkResults[i]]_vars

\* the Slack checker returned a finding for the first node, and the result
\* with that finding is the node's entry
C18_Witness ==
  /\ pc = "returned"
  /\ NodeCount >= 2
  /\ workflow.nodes[1].type = NODE_TYPES.SLACK
  /\ ReturnedChecks(CallsFor(1)) # {}
  /\ checkResults[1].checkerId = SLACK_CHECKER_ID
  /\ ~checkResults[1].passed
  /\ Len(checkResults[1].detectionItems) = 1

\* ------------------------------------------------------ analyze, result
CategoryNames == {"triggers", "dataSources", "outputs", "others"}

RECURSIVE LabelStream(_, _)
\* the labels of one category, result by result along the result list
LabelStream(results, category) ==
  IF results = <<>> THEN <<>>
  ELSE (IF Head(results).nodeCategories.kind = "absent" THEN <<>>
        ELSE ResultCategories(Head(results), checkerCategories)[category])
       \o LabelStream(Tail(results), category)

FirstOccurrence(stream, label) ==
  CHOOSE k \in DOMAIN stream : stream[k] = label /\ \A j \in 1..(k - 1) : stream[j] # label

\* C19: each category of the aggregatedCategories analyze returns holds
\* exactly the labels found in that category of some result's nodeCategories,
\* each label once, in the order of their first occurrence along the result
\* list.
C19_AggregatedCategories ==
  pc = "returned" =>
     \A category \in CategoryNames :
        LET stream == LabelStream(checkResults, category)
            merged == aggregatedCategories[category]
        IN /\ Range(merged) = Range(stream)
           /\ \A a, b \in DOMAIN merged : a # b => merged[a] # merged[b]
           /\ \A a, b \in DOMAIN merged :
                 a < b => FirstOccurrence(stream, merged[a]) < FirstOccurrence(stream, merged[b])

\* a Slack node, a Google Sheets node and a second Slack node were checked:
\* the label of Slack occurs twice along the results and once in the
\* aggregate, ahead of the label of Google Sheets
C19_Witness ==
  /\ pc = "returned"
  /\ LabelStream(checkResults, "dataSources") = <<"slack", "googleSpreadSheet", "slack">>
  /\ aggregatedCategories.dataSources = <<"slack", "googleSpreadSheet">>

\* ------------------------------------------- analyze, structural failure
\* C20: when a connection endpoint of the workflow is unresolvable, graph
\* construction fails and analyze fails as a whole: it never gets past the
\* construction, no rule module is created or invoked, and no check result,
\* partial result list or aggregated category is produced.
C20_StructuralFailureAbortsAnalyze ==
  HasUnresolvableRef(workflow) =>
     /\ pc \in {"idle", "aborted"}
     /\ pc = "aborted" => error # ErrNone
     /\ graph = NoGraph
     /\ DOMAIN checkerCategories = {}
     /\ calls = <<>>
     /\ logged = <<>>
     /\ checkResults = <<>>
     /\ aggregatedCategories = EmptyCategories

\* analyze has failed with 'Node not found' on a workflow that holds a node
\* a registered module supports
C20_Witness ==
  /\ pc = "aborted"
  /\ error = ErrNodeNotFound
  /\ HasUnresolvableRef(workflow)
  /\ \E i \in DOMAIN workflow.nodes : workflow.nodes[i].type = NODE_TYPES.SLACK

\* ------------------------------------------------------- graph, SCC kinds
HasSelfEdge(x) == \E e \in Range(graph.ge) : e[1] = x /\ e[2] = x

IsLoopComponent(nodes) ==
  Len(nodes) > 1 \/ (Len(nodes) = 1 /\ HasSelfEdge(nodes[1]))

KindsOf(components) ==
  {<<Range(components[i].nodes), components[i].type>> : i \in DOMAIN components}

\* C21: a component is typed 'loop' iff it has more than one member or its
\* single member has a self-edge, and 'single' otherwise; hasBackEdge is true
\* for exactly the loop components; the 3-cycle A->B->C->A with an isolated
\* node D has the two components {A,B,C} (loop) and {D} (single).
C21_SCCTypes ==
  pc = "built" =>
    /\ \A i \in DOMAIN sccs :
          /\ sccs[i].type = (IF IsLoopComponent(sccs[i].nodes) THEN "loop" ELSE "single")
          /\ sccs[i].hasBackEdge = (sccs[i].type = "loop")
    /\ workflow = CycleAndIsolated =>
          /\ Len(sccs) = 2
          /\ KindsOf(sccs) = {<<{"a", "b", "c"}, "loop">>, <<{"d"}, "single">>}

\* the example graph has been built, and so has a graph with a one-node
\* component typed 'loop' for its self-edge (reached in another run)
C21_Witness ==
  /\ pc = "built"
  /\ workflow = CycleAndIsolated
  /\ KindsOf(sccs) = {<<{"a", "b", "c"}, "loop">>, <<{"d"}, "single">>}

C21_WitnessSelfEdge ==
  /\ pc = "built"
  /\ \E i \in DOMAIN sccs : Len(sccs[i].nodes) = 1 /\ sccs[i].type = "loop"
  /\ \E i \in DOMAIN sccs : Len(sccs[i].nodes) = 1 /\ sccs[i].type = "single"

\* ---------------------------------------------------- graph, condensation
\* the original edges leading from a member of component i to one of j
CrossingEdges(i, j) ==
  {e \in Range(graph.ge) : e[1] \in Range(sccs[i].nodes) /\ e[2] \in Range(sccs[j].nodes)}

Occurrences(seq, x) == Cardinality({k \in DOMAIN seq : seq[k] = x})

\* C22: the condensed graph has exactly one node per SCC, and an edge from
\* SCC a to SCC b iff a # b and some original edge leads from a member of a
\* to a member of b; several such edges give one condensed edge, and there is
\* no condensed self-loop.
C22_CondensedGraphShape ==
  pc = "built" =>
    /\ Len(condensedDAG.cn) = Len(sccs)
    /\ \A i \in DOMAIN sccs : Occurrences(condensedDAG.cn, sccs[i].id) = 1
    /\ Range(condensedDAG.ce) \subseteq Range(condensedDAG.cn) \X Range(condensedDAG.cn)
    /\ \A i, j \in DOMAIN sccs :
          Occurrences(condensedDAG.ce, <<sccs[i].id, sccs[j].id>>)
             = (IF i # j /\ CrossingEdges(i, j) # {} THEN 1 ELSE 0)

\* two original edges lead from the loop {a, b} to c; the condensation has
\* the two nodes and one edge
C22_Witness ==
  /\ pc = "built"
  /\ Len(sccs) = 2
  /\ \E i, j \in DOMAIN sccs : i # j /\ Cardinality(CrossingEdges(i, j)) = 2
  /\ Len(condensedDAG.cn) = 2
  /\ Len(condensedDAG.ce) = 1

\* ------------------------------------------------- graph, reachable nodes
\* C23: getAllSubsequentNodes(n) returns exactly the nodes other than n that
\* can be reached from n along one or more edges, each once, and
\* getAllPrecedingNodes(n) exactly the nodes other than n from which n can be
\* reached, each once; n is never in the result, also when n lies on a cycle
\* or has a self-loop.
C23_ReachableNodesExceptStart ==
  LET n == answer.args[1]
      ids == answer.value
  IN /\ answer.op = "getAllSubsequentNodes" =>
          /\ Range(ids) = {x \in GraphIds \ {n} : Reaches(graph.ge, Len(graph.gn), n, x)}
          /\ \A i, j \in DOMAIN ids : i # j => ids[i] # ids[j]
     /\ answer.op = "getAllPrecedingNodes" =>
          /\ Range(ids) = {x \in GraphIds \ {n} : Reaches(graph.ge, Len(graph.gn), x, n)}
          /\ \A i, j \in DOMAIN ids : i # j => ids[i] # ids[j]

\* the nodes after b, where b has a self-loop and lies on the cycle
\* a -> b -> c -> a
C23_Witness ==
  /\ answer.op = "getAllSubsequentNodes"
  /\ answer.args = <<"b">>
  /\ graph.ge = << <<"a", "b">>, <<"b", "b">>, <<"b", "c">>, <<"c", "a">> >>
  /\ answer.value = <<"c", "a">>

C23_WitnessPreceding ==
  /\ answer.op = "getAllPrecedingNodes"
  /\ answer.args = <<"b">>
  /\ graph.ge = << <<"a", "b">>, <<"b", "b">>, <<"b", "c">>, <<"c", "a">> >>
  /\ Range(answer.value) = {"a", "c"}

\* ------------------------------------------------ graph, queries are reads
QueryNames ==
  {"getSCCs", "getCondensedDAG", "getTopologicalOrder", "getExecutionOrder",
   "getNodeDependencies", "getNodeDependents", "getAllSubsequentNodes",
   "getAllPrecedingNodes", "getPathFromNodeToNode", "hasCircularDependencies",
   "getLoopInfo", "exportGraph"}

Constructed == BuildGraph(workflow)

AsConstructed ==
  /\ graph = [gn |-> Constructed.gn, gattr |-> Constructed.gattr, ge |-> Constructed.ge]
  /\ sccs = findSCCs(Constructed.gn, Constructed.ge)
  /\ condensedDAG = createCondensedDAG(findSCCs(Constructed.gn, Constructed.ge),
                                       Constructed.ge)

C25_AppendedResultsFrozen ==
  [][\A i \in DOMAIN checkResults :
        origin[i].kind = "node" =>
           /\ i \in DOMAIN checkResults'
           /\ checkResults'[i].detectionItems = checkResults[i].detectionItems
           /\ ResultCategories(checkResults'[i], checkerCategories')
                = ResultCategories(checkResults[i], checkerCategories)]_vars

AskedChecker == answer.args[1]

WorkflowNodes == Range(workflow.nodes)

\* a spreadsheet-creation node: a Google Sheets node whose resource is
\* 'spreadsheet' and whose operation is 'create', given or by default
CreatesSpreadsheet(node) ==
  /\ node.type = NODE_TYPES.GOOGLE_SHEETS
  /\ node.parameters.resource = "spreadsheet"
  /\ node.parameters.operation \in {"create", ""}

\* a Google Drive share operation, or an HTTP request whose url holds
\* googleapis.com/drive/v3/files/<anything>/permissions
SetsScope(node) ==
  \/ node.type = NODE_TYPES.GOOGLE_DRIVE /\ node.parameters.operation = "share"
  \/ /\ node.type = NODE_TYPES.HTTP_REQUEST
     /\ \E i, j \in DOMAIN node.parameters.url :
           /\ i + 3 <= j
           /\ node.parameters.url[i] \in {"googleapis", "GOOGLEAPIS"}
           /\ node.parameters.url[i + 1] = "."
           /\ node.parameters.url[i + 2] \in {"com/drive/v3/files/", "COM/DRIVE/V3/FILES/"}
           /\ node.parameters.url[j] \in {"/permissions", "/PERMISSIONS"}

ScopeSetDownstream(node) ==
  \E other \in WorkflowNodes :
     /\ Reaches(graph.ge, Len(graph.gn), node.id, other.id)
     /\ SetsScope(other)

\* C27: checkScenario of the Google Sheets scope scenario reports, for each
\* spreadsheet-creation node, exactly one missing-scope error iff no node
\* reachable forward from it at any distance is a scope-setting node, and
\* nothing for that node otherwise (and nothing for any other node); the
\* scenario is applicable iff the workflow has a creation node.
C27_MissingScopeReported ==
  /\ (answer.op = "checkScenario" /\ AskedChecker = GOOGLE_SHEETS_SCOPE_SCENARIO_ID) =>
        /\ \A node \in WorkflowNodes :
              Cardinality({k \in DOMAIN answer.value : answer.value[k].nodeId = node.id})
                 = (IF CreatesSpreadsheet(node) /\ ~ScopeSetDownstream(node) THEN 1 ELSE 0)
        /\ \A k \in DOMAIN answer.value :
              /\ answer.value[k].severity = "error"
              /\ answer.value[k].detectionCode = "google-sheets-missing-scope"
              /\ \E node \in WorkflowNodes : node.id = answer.value[k].nodeId
  /\ (answer.op = "isApplicable" /\ AskedChecker = GOOGLE_SHEETS_SCOPE_SCENARIO_ID) =>
        (answer.value <=> \E node \in WorkflowNodes : CreatesSpreadsheet(node))

\* a creation node whose only scope-setting node is two steps away, behind a
\* Google Drive node that shares nothing: nothing is reported
C27_Witness ==
  /\ answer.op = "checkScenario"
  /\ AskedChecker = GOOGLE_SHEETS_SCOPE_SCENARIO_ID
  /\ Len(workflow.nodes) = 3
  /\ CreatesSpreadsheet(workflow.nodes[1])
  /\ ~SetsScope(workflow.nodes[2])
  /\ SetsScope(workflow.nodes[3])
  /\ graph.ge = << <<"a", "b">>, <<"b", "c">> >>
  /\ answer.value = <<>>

\* two creation nodes, the scope set after the first one only: one finding
C27_WitnessMissing ==
  /\ answer.op = "checkScenario"
  /\ AskedChecker = GOOGLE_SHEETS_SCOPE_SCENARIO_ID
  /\ Len(workflow.nodes) = 3
  /\ CreatesSpreadsheet(workflow.nodes[1])
  /\ CreatesSpreadsheet(workflow.nodes[2])
  /\ graph.ge = << <<"a", "c">> >>
  /\ Len(answer.value) = 1
  /\ answer.value[1].nodeId = "b"

\* ---------------------------------------- scenario, Slack user validation
SlackTriggers == {node \in WorkflowNodes : node.type = NODE_TYPES.SLACK_TRIGGER}

\* a Code or If node that implements valid user validation
ValidatesUser(node) ==
  /\ node.type \in {NODE_TYPES.CODE, NODE_TYPES.IF_NODE}
  /\ node.parameters.content = "validates"

\* flagged externalConnection in the review-required table, and neither Slack
\* nor Slack Trigger
DisallowedExternal(node) ==
  /\ \E i \in DOMAIN SECURITY_CONFIG.reviewRequiredNodes :
        /\ SECURITY_CONFIG.reviewRequiredNodes[i].type = node.type
        /\ SECURITY_CONFIG.reviewRequiredNodes[i].externalConnection
  /\ node.type \notin {NODE_TYPES.SLACK, NODE_TYPES.SLACK_TRIGGER}

NodeOfId(id) == CHOOSE node \in WorkflowNodes : node.id = id

RECURSIVE WalkOfKind(_, _, _, _, _)
\* a walk of k edges from a to b; clean: no node on it, its ends included, is
\* a disallowed external node; not clean: some node on it is
WalkOfKind(edges, a, b, k, clean) ==
  IF k = 0 THEN a = b /\ (clean <=> ~DisallowedExternal(NodeOfId(a)))
  ELSE \E e \in Range(edges) :
          /\ e[1] = a
          /\ IF clean
             THEN ~DisallowedExternal(NodeOfId(a)) /\ WalkOfKind(edges, e[2], b, k - 1, TRUE)
             ELSE \/ WalkOfKind(edges, e[2], b, k - 1, FALSE)
                  \/ DisallowedExternal(NodeOfId(a)) /\ WalkExists(edges, e[2], b, k - 1)

\* some shortest path from a to b is clean, respectively not clean
ShortestPathOfKind(a, b, clean) ==
  WalkOfKind(graph.ge, a, b, HopDistance(graph.ge, Len(graph.gn), a, b), clean)

Downstream(a, b) == a # b /\ Reaches(graph.ge, Len(graph.gn), a, b)

ItemsAbout(node) == SelectSeq(answer.value, LAMBDA item : item.nodeId = node.id)

\* C28: for each Slack trigger the Slack user validation scenario reports one
\* finding.  It is 'validation implemented' (severity none) only if a
\* downstream Code or If node validates the user and a shortest path from
\* the trigger to that node holds no node flagged externalConnection other
\* than Slack and Slack Trigger; it is the error
\* SLACK_VALIDATION_INVALID_EXTERNAL_CONNECTIONS only if such a node lies on a
\* shortest path to a validating node; and when a validating node is
\* downstream the finding is one of the two, about a validating node.
C28_ValidationNeedsCleanPath ==
  (answer.op = "checkScenario" /\ AskedChecker = SLACK_USER_VALIDATION_SCENARIO_ID) =>
     /\ \A k \in DOMAIN answer.value : \E t \in SlackTriggers : answer.value[k].nodeId = t.id
     /\ \A t \in SlackTriggers :
           /\ Len(ItemsAbout(t)) = 1
           /\ LET item == ItemsAbout(t)[1]
                  implemented ==
                    item.detectionCode \in {"SLACK_JSCODE_VALIDATION_IMPLEMENTED",
                                            "SLACK_IF_VALIDATION_IMPLEMENTED"}
                  invalid ==
                    item.detectionCode = "SLACK_VALIDATION_INVALID_EXTERNAL_CONNECTIONS"
                  validating == {v \in WorkflowNodes : ValidatesUser(v) /\ Downstream(t.id, v.id)}
              IN /\ (item.severity = "none") <=> implemented
                 /\ item.severity \in {"none", "error"}
                 /\ implemented =>
                       /\ item.relatedNodes # <<>>
                       /\ NodeOfId(item.relatedNodes[1]) \in validating
                       /\ ShortestPathOfKind(t.id, item.relatedNodes[1], TRUE)
                 /\ invalid =>
                       /\ item.relatedNodes # <<>>
                       /\ NodeOfId(item.relatedNodes[1]) \in validating
                       /\ ShortestPathOfKind(t.id, item.relatedNodes[1], FALSE)
                 /\ (validating # {}) => (implemented \/ invalid)

\* trigger -> HTTP Request -> validating Code node: the error, which names
\* the Code node and the HTTP Request node
C28_Witness ==
  /\ answer.op = "checkScenario"
  /\ AskedChecker = SLACK_USER_VALIDATION_SCENARIO_ID
  /\ Len(workflow.nodes) = 3
  /\ workflow.nodes[1].type = NODE_TYPES.SLACK_TRIGGER
  /\ workflow.nodes[2].type = NODE_TYPES.HTTP_REQUEST
  /\ ValidatesUser(workflow.nodes[3])
  /\ graph.ge = << <<"a", "b">>, <<"b", "c">> >>
  /\ Len(answer.value) = 1
  /\ answer.value[1].detectionCode = "SLACK_VALIDATION_INVALID_EXTERNAL_CONNECTIONS"
  /\ answer.value[1].severity = "error"
  /\ answer.value[1].relatedNodes = <<"c", "b">>

\* the same three nodes and a direct connection from the trigger to the Code
\* node: validation implemented
C28_WitnessImplemented ==
  /\ answer.op = "checkScenario"
  /\ AskedChecker = SLACK_USER_VALIDATION_SCENARIO_ID
  /\ Len(workflow.nodes) = 3
  /\ workflow.nodes[1].type = NODE_TYPES.SLACK_TRIGGER
  /\ workflow.nodes[2].type = NODE_TYPES.HTTP_REQUEST
  /\ ValidatesUser(workflow.nodes[3])
  /\ Range(graph.ge) = {<<"a", "b">>, <<"b", "c">>, <<"a", "c">>}
  /\ Len(answer.value) = 1
  /\ answer.value[1].severity = "none"
  /\ answer.value[1].relatedNodes = <<"c">>

\* two shortest paths to the validating node, one through an HTTP Request
\* node and one through a Slack node: the path found first decides
C28_WitnessTwoBranches ==
  /\ answer.op = "checkScenario"
  /\ AskedChecker = SLACK_USER_VALIDATION_SCENARIO_ID
  /\ workflow = TwoBranches(NODE_TYPES.HTTP_REQUEST, NODE_TYPES.SLACK)
  /\ answer.value[1].detectionCode = "SLACK_VALIDATION_INVALID_EXTERNAL_CONNECTIONS"
  /\ ShortestPathOfKind("a", "d", TRUE)

\* ---------------------------------------------- hasCircularDependencies
\* some node of the graph lies on a directed cycle (a self-edge is one)
HasDirectedCycle ==
  \E x \in Range(graph.gn) : Reaches(graph.ge, Len(graph.gn), x, x)

\* C29: hasCircularDependencies() answers true iff the graph contains a
\* directed cycle, a self-loop included, and iff getLoopSCCs() is non-empty.
C29_CircularIffCycle ==
  /\ answer.op = "hasCircularDependencies" =>
        /\ answer.value <=> HasDirectedCycle
        /\ answer.value <=> (getLoopSCCs(sccs) # <<>>)
  /\ answer.op = "getLoopSCCs" => ((answer.value # <<>>) <=> HasDirectedCycle)

\* a graph whose only cycle is one self-edge answers true
C29_Witness ==
  /\ answer.op = "hasCircularDependencies"
  /\ answer.value = TRUE
  /\ Len(graph.gn) >= 2
  /\ \E x \in Range(graph.gn) : <<x, x>> \in Range(graph.ge)
  /\ \A e \in Range(graph.ge) : e[1] = e[2] \/ ~Reaches(graph.ge, Len(graph.gn), e[2], e[1])

\* a graph with edges and no cycle answers false
C29_WitnessAcyclic ==
  /\ answer.op = "hasCircularDependencies"
  /\ answer.value = FALSE
  /\ Len(graph.ge) >= 2

\* ------------------------------------------------ traversals terminate
NoDuplicates(seq) == \A i, j \in DOMAIN seq : seq[i] = seq[j] => i = j

\* the value the method returns for the arguments of the traversal
ValueOf(op, args) ==
  IF op = "getAllSubsequentNodes" THEN getAllSubsequentNodes(graph.gn, graph.ge, args[1])
  ELSE IF op = "getAllPrecedingNodes" THEN getAllPrecedingNodes(graph.gn, graph.ge, args[1])
  ELSE getPathFromNodeToNode(graph.gn, graph.gattr, graph.ge, args[1], args[2])

\* C30: getAllSubsequentNodes, getAllPrecedingNodes and getPathFromNodeToNode
\* terminate on every finite graph, cycles and self-loops included: no node
\* is expanded twice, every loop that was entered is left, and the
\* traversals are left with an empty queue (the path search with an empty
\* queue or with the target found).
C30_TraversalsTerminate ==
  /\ [](pc \in {"walking", "walked"} =>
          /\ NoDuplicates(traversal.st.expanded)
          /\ Range(traversal.st.expanded) \subseteq Range(graph.gn))
  /\ [](pc = "walked" =>
          /\ traversal.st.queue = <<>> \/ (traversal.op = "getPathFromNodeToNode"
                                          /\ traversal.st.found)
          /\ answer.value = ValueOf(traversal.op, traversal.args))
  /\ (pc = "walking" ~> pc = "walked")

\* getAllSubsequentNodes has returned on a graph in which the start node has
\* a self-edge and lies on a cycle with another node
C30_Witness ==
  /\ pc = "walked"
  /\ traversal.op = "getAllSubsequentNodes"
  /\ {<<"a", "a">>, <<"a", "b">>, <<"b", "a">>} \subseteq Range(graph.ge)
  /\ traversal.st.expanded = <<"a", "b">>
  /\ traversal.st.queue = <<>>

\* getPathFromNodeToNode has returned without a path on a graph with a cycle
C30_WitnessNoPath ==
  /\ pc = "walked"
  /\ traversal.op = "getPathFromNodeToNode"
  /\ traversal.args = <<"a", "c">>
  /\ {<<"a", "b">>, <<"b", "a">>} \subseteq Range(graph.ge)
  /\ Len(graph.gn) = 3
  /\ answer.value = <<>>
  /\ traversal.st.expanded = <<"a", "b">>

====
